---- MODULE Spec2Model ----
(***************************************************************************)
(* A model of the NervosDAO transaction builder of ckb-cli:                *)
(*   - Epoch Arithmetic   (dao/builder.rs: minimal_unlock_point)           *)
(*   - Cell Classifier    (functional/spendable.rs)                        *)
(*   - Transaction Builder (dao/builder.rs: DAOBuilder)                    *)
(*   - Witness Signer     (functional/secp_signer.rs)                      *)
(*   - the `dao deposit` command (dao/mod.rs)                              *)
(*                                                                         *)
(* Conventions.  Option<T> is a sequence of length 0 (None) or 1 (Some).   *)
(* Bytes are sequences of integers 0..255.  A u64 that is packed, OR-ed or *)
(* (de)serialised is kept as four 16-bit limbs, least significant first,   *)
(* so that every conversion is computed and not assumed.  Capacities are   *)
(* plain naturals; their unsigned subtraction wraps modulo 2^CapacityBits. *)
(***************************************************************************)
EXTENDS Integers, Sequences, FiniteSets, TLC

----------------------------------------------------------------------------
(* Bounds of the model                                                     *)

\* prepare.number ranges over deposit.number .. deposit.number + MaxSpan
MaxSpan == 362
\* epoch lengths 1..MaxEpochLength (index < length), besides the test table
MaxEpochLength == 3
\* width of the words capacities are subtracted in (u64 in the program)
CapacityBits == 12
\* blocks the chain holds besides the genesis block
MaxBlocks == 3
\* cells a DAOBuilder is constructed with
MaxSelected == 2
\* blocks per epoch of the modelled chain (index < length)
ChainEpochLength == 2
MaxCells == 3

----------------------------------------------------------------------------
(* Generic helpers                                                         *)

None == << >>
Some(x) == << x >>
IsNone(o) == Len(o) = 0
IsSome(o) == Len(o) = 1
Unwrap(o) == o[1]

Pow2(n) == 2 ^ n

RECURSIVE SumSeq(_)
SumSeq(s) == IF Len(s) = 0 THEN 0 ELSE Head(s) + SumSeq(Tail(s))

Zeros(n) == [i \in 1..n |-> 0]

\* bitwise OR of two naturals below 2^16
RECURSIVE Or16(_, _)
Or16(a, b) ==
    IF a = 0 THEN b
    ELSE IF b = 0 THEN a
    ELSE (IF (a % 2) + (b % 2) > 0 THEN 1 ELSE 0) + 2 * Or16(a \div 2, b \div 2)

\* u64 values as four 16-bit limbs, least significant first
U64Or(x, y) == [i \in 1..4 |-> Or16(x[i], y[i])]
U64Zero == <<0, 0, 0, 0>>
\* a natural below 2^31 as u64
U64FromNat(n) == <<n % 65536, (n \div 65536) % 65536, 0, 0>>

\* u64::to_le_bytes
to_le_bytes(x) ==
    [i \in 1..8 |-> IF i % 2 = 1 THEN x[(i + 1) \div 2] % 256
                                 ELSE x[i \div 2] \div 256]

\* a read that decodes only the low four bytes (a u32 read)
read_u64_low32(b) == <<b[1] + 256 * b[2], b[3] + 256 * b[4], 0, 0>>

\* LittleEndian::read_u64 of exactly 8 bytes
read_u64(b) == [i \in 1..4 |-> b[2 * i - 1] + 256 * b[2 * i]]

----------------------------------------------------------------------------
(* Epoch Arithmetic                                                        *)

LOCK_PERIOD_EPOCHES == 180

\* EpochNumberWithFraction::new
EpochNumberWithFraction(number, index, length) ==
    [number |-> number, index |-> index, length |-> length]

\* a full value that keeps the number alone
full_value_number_only(e) ==
    << e.number % 65536, (e.number \div 65536) % 256, 0, 0 >>

\* EpochNumberWithFraction::full_value: length << 40 | index << 24 | number
full_value(e) ==
    << e.number % 65536,
       ((e.number \div 65536) % 256) + 256 * (e.index % 256),
       ((e.index \div 256) % 256) + 256 * (e.length % 256),
       (e.length \div 256) % 256 >>

\* the fraction comparison with >= in place of >
minimal_unlock_point_ge(dh, ph) ==
    LET passed == IF ph.epoch.index * dh.epoch.length >= dh.epoch.index * ph.epoch.length
                  THEN ph.epoch.number - dh.epoch.number + 1
                  ELSE ph.epoch.number - dh.epoch.number
        rest == ((passed + (180 - 1)) \div 180) * 180
    IN [number |-> dh.epoch.number + rest, index |-> dh.epoch.index,
        length |-> dh.epoch.length]

\* rounding the passed epochs down instead of up
minimal_unlock_point_floor(dh, ph) ==
    LET passed == IF ph.epoch.index * dh.epoch.length > dh.epoch.index * ph.epoch.length
                  THEN ph.epoch.number - dh.epoch.number + 1
                  ELSE ph.epoch.number - dh.epoch.number
        rest == (passed \div 180) * 180
    IN [number |-> dh.epoch.number + rest, index |-> dh.epoch.index,
        length |-> dh.epoch.length]

\* adding only the epochs left in the current period
minimal_unlock_point_rest(dh, ph) ==
    LET passed == IF ph.epoch.index * dh.epoch.length > dh.epoch.index * ph.epoch.length
                  THEN ph.epoch.number - dh.epoch.number + 1
                  ELSE ph.epoch.number - dh.epoch.number
        rest == 180 - (passed % 180)
    IN [number |-> dh.epoch.number + rest, index |-> dh.epoch.index,
        length |-> dh.epoch.length]

minimal_unlock_point(deposit_header, prepare_header) ==
    LET deposit_point == deposit_header.epoch
        prepare_point == prepare_header.epoch
        prepare_fraction == prepare_point.index * deposit_point.length
        deposit_fraction == deposit_point.index * prepare_point.length
        passed_epoch_cnt ==
            IF prepare_fraction > deposit_fraction
            THEN prepare_point.number - deposit_point.number + 1
            ELSE prepare_point.number - deposit_point.number
        rest_epoch_cnt ==
            ((passed_epoch_cnt + (LOCK_PERIOD_EPOCHES - 1)) \div LOCK_PERIOD_EPOCHES)
                * LOCK_PERIOD_EPOCHES
    IN EpochNumberWithFraction(deposit_point.number + rest_epoch_cnt,
                               deposit_point.index,
                               deposit_point.length)

FLAG_SINCE_EPOCH_NUMBER == <<0, 0, 0, 8192>>

since_from_absolute_epoch_number(epoch_number) ==
    U64Or(FLAG_SINCE_EPOCH_NUMBER, epoch_number)

\* the table of test_minimal_unlock_point: <<deposit, prepare, expected>>
TestCases ==
    LET D == <<5, 5, 1000>>
        P(n, i) == <<n, i, 1000>>
        E(k) == <<5 + 180 * k, 5, 1000>>
    IN { <<D, P(184, 4), E(1)>>, <<D, P(184, 5), E(1)>>, <<D, P(184, 6), E(1)>>,
         <<D, P(185, 4), E(1)>>, <<D, P(185, 5), E(1)>>, <<D, P(185, 6), E(2)>>,
         <<D, P(186, 4), E(2)>>, <<D, P(186, 5), E(2)>>, <<D, P(186, 6), E(2)>>,
         <<D, P(364, 4), E(2)>>, <<D, P(364, 5), E(2)>>, <<D, P(364, 6), E(2)>>,
         <<D, P(365, 4), E(2)>>, <<D, P(365, 5), E(2)>>, <<D, P(365, 6), E(3)>>,
         <<D, P(366, 4), E(3)>>, <<D, P(366, 5), E(3)>>, <<D, P(366, 6), E(3)>>  }

\* HeaderBuilder::default().epoch(point.full_value().pack()).build()
HeaderOfPoint(t) ==
    [number |-> 0, epoch |-> EpochNumberWithFraction(t[1], t[2], t[3])]

----------------------------------------------------------------------------
(* Cell Classifier                                                         *)

secp_type_hash == "secp_type_hash"
dao_type_hash == "dao_type_hash"
other_code_hash == "other_code_hash"

Script(code_hash, hash_type) == [code_hash |-> code_hash, hash_type |-> hash_type]

\* the owner's lock: from_address.lock_script(secp_type_hash)
lock_script == Script(secp_type_hash, "type")
\* the lock CellOutput::new_builder() leaves in an output (Script::default())
null_lock == Script("zero_code_hash", "data")

is_live_cell(c) ==
    IF c.status # "live" THEN FALSE
    ELSE IF IsNone(c.cell) THEN FALSE
    ELSE TRUE

\* a classifier that forgets to look at the type script
is_none_type_cell_any(c) == TRUE

is_none_type_cell(c) ==
    IF IsSome(c.cell) THEN IsNone(Unwrap(c.cell).output.type_) ELSE TRUE

is_empty_data(c) ==
    IF IsSome(c.cell) THEN Len(Unwrap(c.cell).data) = 0 ELSE FALSE

is_live_secp_cell(c, secp_hash) ==
    IF ~is_live_cell(c) THEN FALSE
    ELSE LET inner == Unwrap(c.cell) IN
         IF inner.output.lock.code_hash # secp_hash THEN FALSE
         ELSE IF inner.output.lock.hash_type # "type" THEN FALSE
         ELSE TRUE

is_dao_type(type_, dao_hash) ==
    IF IsSome(type_)
    THEN Unwrap(type_).hash_type = "type" /\ Unwrap(type_).code_hash = dao_hash
    ELSE FALSE

is_live_deposit_cell(c, dao_hash) ==
    IF ~is_live_cell(c) THEN FALSE
    ELSE LET inner == Unwrap(c.cell)
             content == inner.data
         IN IF Len(content) # 8 THEN FALSE
            ELSE IF read_u64(SubSeq(content, 1, 8)) # U64Zero THEN FALSE
            ELSE is_dao_type(inner.output.type_, dao_hash)

is_live_prepare_cell(c, dao_hash) ==
    IF ~is_live_cell(c) THEN FALSE
    ELSE LET inner == Unwrap(c.cell)
             content == inner.data
         IN IF Len(content) # 8 THEN FALSE
            ELSE LET deposited_number == read_u64(SubSeq(content, 1, 8)) IN
                 IF deposited_number = U64Zero THEN FALSE
                 ELSE is_dao_type(inner.output.type_, dao_hash)

\* the classifiers on the CellWithStatus that get_live_cell returned
can_spend_cell(c) ==
    is_live_secp_cell(c, secp_type_hash) /\ is_none_type_cell(c) /\ is_empty_data(c)

can_deposit_cell(c) == can_spend_cell(c)

can_prepare_cell(c) ==
    is_live_secp_cell(c, secp_type_hash) /\ is_live_deposit_cell(c, dao_type_hash)

can_withdraw_cell(c) ==
    is_live_secp_cell(c, secp_type_hash) /\ is_live_prepare_cell(c, dao_type_hash)

----------------------------------------------------------------------------
(* State                                                                   *)

VARIABLES
    deposit_header,   \* Epoch Arithmetic: the deposit block's header
    prepare_header,   \* Epoch Arithmetic: the prepare block's header
    unlock_point,     \* Option: the value minimal_unlock_point returned
    cell,             \* Cell Classifier: the CellWithStatus under test
    verdict,          \* Option: what the four classifiers returned
    headers,          \* chain: headers of the blocks, block hash = position
    txs,              \* chain: transactions, tx hash = position
    spent,            \* chain: out-points consumed by committed transactions
    result            \* Option: what the last builder / command call returned

vars == <<deposit_header, prepare_header, unlock_point, cell, verdict,
          headers, txs, spent, result>>

\* values of the variables of a component that is not running
IdleHeader == [number |-> 0, epoch |-> EpochNumberWithFraction(0, 0, 1)]
IdleCell == [status |-> "unknown", cell |-> None]

EpochIdle ==
    /\ deposit_header = IdleHeader
    /\ prepare_header = IdleHeader
    /\ unlock_point = None

ClassifierIdle ==
    /\ cell = IdleCell
    /\ verdict = None

GenesisHeader == [number |-> 0, epoch |-> EpochNumberWithFraction(0, 0, ChainEpochLength)]

\* the cells the genesis block issues to the owner
GenesisCapacities == <<100, 104>>

\* the genesis transaction: one ordinary cell per issued capacity
GenesisTx ==
    [inputs |-> <<[previous_output |-> [tx_hash |-> 0, index |-> 4095],
                   since |-> U64Zero]>>,
     outputs |-> [i \in 1..Len(GenesisCapacities) |->
                     [capacity |-> GenesisCapacities[i],
                      lock |-> lock_script, type_ |-> None]],
     outputs_data |-> [i \in 1..Len(GenesisCapacities) |-> << >>],
     block_hash |-> Some(1)]

ChainIdle ==
    /\ headers = <<GenesisHeader>>
    /\ txs = <<GenesisTx>>
    /\ spent = {}
    /\ result = None

----------------------------------------------------------------------------
(* Epoch Arithmetic as a state machine: pick two headers, compute          *)

EpochPoints(numbers) ==
    { EpochNumberWithFraction(n, i, l) :
        n \in numbers, i \in 0..(MaxEpochLength - 1), l \in 1..MaxEpochLength }

\* pairs <<deposit point, prepare point>>, index < length, prepare.number >=
\* deposit.number, together with the inputs of the test table
EpochInputs ==
    { <<d, p>> \in EpochPoints({0, 5}) \X EpochPoints(0..(5 + MaxSpan)) :
          /\ d.index < d.length
          /\ p.index < p.length
          /\ p.number >= d.number
          /\ p.number <= d.number + MaxSpan }
    \cup { <<HeaderOfPoint(t[1]).epoch, HeaderOfPoint(t[2]).epoch>> : t \in TestCases }

InitEpoch ==
    /\ \E dp \in EpochInputs :
          /\ deposit_header = [number |-> 0, epoch |-> dp[1]]
          /\ prepare_header = [number |-> 0, epoch |-> dp[2]]
    /\ unlock_point = None
    /\ ClassifierIdle
    /\ ChainIdle

ComputeUnlock ==
    /\ unlock_point = None
    /\ unlock_point' = Some(minimal_unlock_point(deposit_header, prepare_header))
    /\ UNCHANGED <<deposit_header, prepare_header, cell, verdict,
                   headers, txs, spent, result>>

NextEpoch == ComputeUnlock

SpecEpoch == InitEpoch /\ [][NextEpoch]_vars

----------------------------------------------------------------------------
(* Cell Classifier as a state machine: pick a snapshot, classify           *)

ByteSamples == {0, 1, 255}

ClassifierData ==
    { << >>, <<1>>, Zeros(7), Zeros(9) }
    \cup { [Zeros(8) EXCEPT ![k] = v] : k \in 1..8, v \in ByteSamples }

ClassifierCells ==
    { [output |-> [capacity |-> 100, lock |-> lk, type_ |-> ty], data |-> dt] :
        lk \in { Script(secp_type_hash, "type"), Script(secp_type_hash, "data"),
                 Script(other_code_hash, "type") },
        ty \in { None, Some(Script(dao_type_hash, "type")),
                 Some(Script(dao_type_hash, "data")),
                 Some(Script(other_code_hash, "type")) },
        dt \in ClassifierData }

ClassifierInputs ==
    { [status |-> st, cell |-> c] :
        st \in {"live", "dead", "unknown"},
        c \in {None} \cup { Some(x) : x \in ClassifierCells } }

InitClassifier ==
    /\ cell \in ClassifierInputs
    /\ verdict = None
    /\ EpochIdle
    /\ ChainIdle

Classify ==
    /\ verdict = None
    /\ verdict' = Some([can_spend    |-> can_spend_cell(cell),
                        can_deposit  |-> can_deposit_cell(cell),
                        can_prepare  |-> can_prepare_cell(cell),
                        can_withdraw |-> can_withdraw_cell(cell)])
    /\ UNCHANGED <<deposit_header, prepare_header, unlock_point, cell,
                   headers, txs, spent, result>>

NextClassifier == Classify

SpecClassifier == InitClassifier /\ [][NextClassifier]_vars

----------------------------------------------------------------------------
(* The chain as ChainClient sees it                                        *)

OutPoint(tx_hash, index) == [tx_hash |-> tx_hash, index |-> index]
CellInput(previous_output, since) ==
    [previous_output |-> previous_output, since |-> since]
CellOutput(capacity, lock, type_) ==
    [capacity |-> capacity, lock |-> lock, type_ |-> type_]

\* ChainClient::get_transaction: Ok(TransactionWithStatus) or Err
get_transaction(tx_hash) ==
    IF tx_hash \in 1..Len(txs)
    THEN [ok |-> TRUE, transaction |-> txs[tx_hash],
          block_hash |-> txs[tx_hash].block_hash]
    ELSE [ok |-> FALSE, error |-> "RPC get_transaction returns none"]

\* ChainClient::get_header
get_header(block_hash) ==
    IF block_hash \in 1..Len(headers) THEN Some(headers[block_hash]) ELSE None

IsLiveOutPoint(op) ==
    /\ op.tx_hash \in 1..Len(txs)
    /\ IsSome(txs[op.tx_hash].block_hash)
    /\ op.index \in 0..(Len(txs[op.tx_hash].outputs) - 1)
    /\ op \notin spent

\* ChainClient::get_live_cell (with data)
get_live_cell(op) ==
    IF IsLiveOutPoint(op)
    THEN [status |-> "live",
          cell |-> Some([output |-> txs[op.tx_hash].outputs[op.index + 1],
                         data |-> txs[op.tx_hash].outputs_data[op.index + 1]])]
    ELSE [status |-> IF op \in spent THEN "dead" ELSE "unknown", cell |-> None]

\* LiveCellInfo of the index database for a live out-point
LiveCellInfo(op) ==
    [tx_hash |-> op.tx_hash, output_index |-> op.index,
     capacity |-> txs[op.tx_hash].outputs[op.index + 1].capacity,
     number |-> headers[Unwrap(txs[op.tx_hash].block_hash)].number]

\* LiveCellInfo::out_point
out_point(info) == OutPoint(info.tx_hash, info.output_index)

can_spend(info) == can_spend_cell(get_live_cell(out_point(info)))
can_deposit(info) == can_deposit_cell(get_live_cell(out_point(info)))
can_prepare(info) == can_prepare_cell(get_live_cell(out_point(info)))
can_withdraw(info) == can_withdraw_cell(get_live_cell(out_point(info)))

LiveOutPoints ==
    { op \in UNION { { OutPoint(t, i) : i \in 0..(Len(txs[t].outputs) - 1) } :
                     t \in 1..Len(txs) } : IsLiveOutPoint(op) }

FreeOutPoints == { op \in LiveOutPoints : can_spend(LiveCellInfo(op)) }
DepositedOutPoints == { op \in LiveOutPoints : can_prepare(LiveCellInfo(op)) }
PreparedOutPoints == { op \in LiveOutPoints : can_withdraw(LiveCellInfo(op)) }

\* sequences of 1..n distinct elements of S
DistinctSeqs(S, n) ==
    { q \in UNION { [1..k -> S] : k \in 1..n } :
        \A i, j \in 1..Len(q) : i # j => q[i] # q[j] }

----------------------------------------------------------------------------
(* The chain grows: blocks mined by the node, each committing one          *)
(* transaction that the chain's rules accept                               *)

dao_type_script == Script(dao_type_hash, "type")

Tip == headers[Len(headers)]

\* epochs the next block can have: the next index of the tip's epoch, or
\* any index of the epoch one lock period later (the blocks between are
\* not kept)
NextEpochs ==
    { EpochNumberWithFraction(Tip.epoch.number, i, ChainEpochLength) :
        i \in (Tip.epoch.index + 1)..(ChainEpochLength - 1) }
    \cup { EpochNumberWithFraction(Tip.epoch.number + LOCK_PERIOD_EPOCHES, i,
                                   ChainEpochLength) :
             i \in 0..(ChainEpochLength - 1) }

HeaderAt(ep) == [number |-> ep.number * ep.length + ep.index, epoch |-> ep]

ChainTx(inputs, outputs, outputs_data) ==
    [inputs |-> inputs, outputs |-> outputs, outputs_data |-> outputs_data,
     block_hash |-> Some(Len(headers) + 1)]

PoolIsEmpty == \A t \in 1..Len(txs) : IsSome(txs[t].block_hash)

CommitBlock(ep, tx, consumed) ==
    /\ Len(headers) <= MaxBlocks
    /\ result = None
    /\ PoolIsEmpty
    /\ headers' = Append(headers, HeaderAt(ep))
    /\ txs' = Append(txs, tx)
    /\ spent' = spent \cup consumed
    /\ UNCHANGED <<deposit_header, prepare_header, unlock_point, cell, verdict, result>>

\* a block committing a deposit of a whole Free cell
MineDeposit ==
    \E op \in FreeOutPoints, ep \in NextEpochs :
        CommitBlock(ep,
               ChainTx(<<CellInput(op, U64Zero)>>,
                       <<CellOutput(LiveCellInfo(op).capacity, lock_script,
                                    Some(dao_type_script))>>,
                       <<Zeros(8)>>),
               {op})

\* a deposit of a Free cell, less a fee of 1, that the node holds in its
\* pool: known to get_transaction, committed by no block (the pool holds one
\* at a time, and is modelled on chains of MaxBlocks blocks only)
PoolDeposit ==
    \E op \in FreeOutPoints :
        /\ result = None
        /\ PoolIsEmpty
        /\ Len(headers) = MaxBlocks
        /\ txs' = Append(txs,
                     [inputs |-> <<CellInput(op, U64Zero)>>,
                      outputs |-> <<CellOutput(LiveCellInfo(op).capacity - 1, lock_script,
                                               Some(dao_type_script))>>,
                      outputs_data |-> <<Zeros(8)>>,
                      block_hash |-> None])
        /\ UNCHANGED <<deposit_header, prepare_header, unlock_point, cell, verdict,
                       headers, spent, result>>

\* the next block commits the transaction of the pool
MinePool ==
    \E ep \in NextEpochs :
        /\ Len(headers) <= MaxBlocks
        /\ result = None
        /\ ~PoolIsEmpty
        /\ headers' = Append(headers, HeaderAt(ep))
        /\ txs' = [txs EXCEPT ![Len(txs)].block_hash = Some(Len(headers) + 1)]
        /\ spent' = spent \cup { txs[Len(txs)].inputs[i].previous_output :
                                   i \in 1..Len(txs[Len(txs)].inputs) }
        /\ UNCHANGED <<deposit_header, prepare_header, unlock_point, cell, verdict, result>>

\* a block committing a prepare of one or two Deposited cells: output i is
\* the prepared form of input i, as the DAO type script demands
MinePrepare ==
    \E ops \in DistinctSeqs(DepositedOutPoints, MaxSelected), ep \in NextEpochs :
        CommitBlock(ep,
            ChainTx([i \in 1..Len(ops) |-> CellInput(ops[i], U64Zero)],
                    [i \in 1..Len(ops) |-> txs[ops[i].tx_hash].outputs[ops[i].index + 1]],
                    [i \in 1..Len(ops) |->
                        to_le_bytes(U64FromNat(LiveCellInfo(ops[i]).number))]),
            { ops[i] : i \in 1..Len(ops) })

----------------------------------------------------------------------------
(* Transaction Builder: DAOBuilder                                         *)

dao_dep == "dao_dep"
secp_dep == "secp_dep"

DAOBuilder(capacity, tx_fee, live_cells) ==
    [capacity |-> capacity, tx_fee |-> tx_fee, live_cells |-> live_cells]

\* TransactionBuilder::build
Transaction(inputs, outputs, outputs_data, cell_deps, header_deps, witnesses) ==
    [inputs |-> inputs, outputs |-> outputs, outputs_data |-> outputs_data,
     cell_deps |-> cell_deps, header_deps |-> header_deps, witnesses |-> witnesses]

\* Result<TransactionView, String>, or the panic that ended the call
Ok(tx) == [outcome |-> "ok", error |-> "", tx |-> Some(tx)]
Err(msg) == [outcome |-> "err", error |-> msg, tx |-> None]
Panic(msg) == [outcome |-> "panic", error |-> msg, tx |-> None]

\* how the binary treats integer overflow: checked (debug) or wrapping (release)
OverflowBuilds == {"debug", "release"}

\* a - b on u64: None is the overflow panic of a checked build
u64_sub(a, b, build) ==
    IF a >= b THEN Some(a - b)
    ELSE IF build = "debug" THEN None
    ELSE Some((a - b + Pow2(CapacityBits)) % Pow2(CapacityBits))

Capacities(cells) == [i \in 1..Len(cells) |-> cells[i].capacity]

\* a deposit output that carries no DAO type script
deposit_output_untyped(deposit_capacity) ==
    [output |-> CellOutput(deposit_capacity, null_lock, None),
     output_data |-> Zeros(8)]

\* the deposit output and its data
deposit_output(deposit_capacity) ==
    [output |-> CellOutput(deposit_capacity, null_lock, Some(dao_type_script)),
     output_data |-> Zeros(8)]

\* a change output even for a remainder of zero
deposit_has_change_always(change_capacity) == change_capacity >= 0

\* whether deposit adds a change output
deposit_has_change(change_capacity) == change_capacity > 0

\* a deposit that gives the transaction one witness whatever its inputs
DAOBuilder_deposit_one_witness(self, build) ==
    LET deposit_capacity == self.capacity
        inputs == [i \in 1..Len(self.live_cells) |->
                      CellInput(out_point(self.live_cells[i]), U64Zero)]
        witnesses == << << >> >>
        out == deposit_output(deposit_capacity)
        cell_deps == <<dao_dep>>
        input_capacity == SumSeq(Capacities(self.live_cells))
        minus_capacity == u64_sub(input_capacity, self.capacity, build)
        change_capacity ==
            IF IsSome(minus_capacity)
            THEN u64_sub(Unwrap(minus_capacity), self.tx_fee, build)
            ELSE None
    IN IF IsNone(change_capacity)
       THEN Panic("attempt to subtract with overflow")
       ELSE IF deposit_has_change(Unwrap(change_capacity))
       THEN Ok(Transaction(inputs,
                   <<out.output, CellOutput(Unwrap(change_capacity), null_lock, None)>>,
                   <<out.output_data, << >> >>,
                   cell_deps, << >>, witnesses))
       ELSE Ok(Transaction(inputs, <<out.output>>, <<out.output_data>>,
                   cell_deps, << >>, witnesses))

\* DAOBuilder::deposit
DAOBuilder_deposit(self, build) ==
    LET deposit_capacity == self.capacity
        inputs == [i \in 1..Len(self.live_cells) |->
                      CellInput(out_point(self.live_cells[i]), U64Zero)]
        witnesses == [i \in 1..Len(inputs) |-> << >>]
        out == deposit_output(deposit_capacity)
        cell_deps == <<dao_dep>>
        input_capacity == SumSeq(Capacities(self.live_cells))
        minus_capacity == u64_sub(input_capacity, self.capacity, build)
        change_capacity ==
            IF IsSome(minus_capacity)
            THEN u64_sub(Unwrap(minus_capacity), self.tx_fee, build)
            ELSE None
    IN IF IsNone(change_capacity)
       THEN Panic("attempt to subtract with overflow")
       ELSE IF deposit_has_change(Unwrap(change_capacity))
       THEN Ok(Transaction(inputs,
                   <<out.output, CellOutput(Unwrap(change_capacity), null_lock, None)>>,
                   <<out.output_data, << >> >>,
                   cell_deps, << >>, witnesses))
       ELSE Ok(Transaction(inputs, <<out.output>>, <<out.output_data>>,
                   cell_deps, << >>, witnesses))

----------------------------------------------------------------------------
(* Witness Signer                                                          *)

RECURSIVE Concat(_)
Concat(seqs) == IF Len(seqs) = 0 THEN << >> ELSE Head(seqs) \o Concat(Tail(seqs))

\* a u32 (below 2^31) as 4 little-endian bytes: molecule's number encoding
le32(n) == <<n % 256, (n \div 256) % 256, (n \div 65536) % 256, (n \div 16777216) % 256>>

read_le32(b, pos) ==
    b[pos] + 256 * b[pos + 1] + 65536 * b[pos + 2] + 16777216 * b[pos + 3]

\* (len as u64).to_le_bytes()
le64(n) == to_le_bytes(U64FromNat(n))

WitnessArgs(lock, input_type, output_type) ==
    [lock |-> lock, input_type |-> input_type, output_type |-> output_type]

WitnessArgs_default == WitnessArgs(None, None, None)

\* BytesOpt: nothing for None, a length-prefixed byte vector for Some
BytesOpt_as_bytes(o) ==
    IF IsNone(o) THEN << >> ELSE le32(Len(Unwrap(o))) \o Unwrap(o)

\* WitnessArgs::as_bytes: the molecule table of the three optional fields
WitnessArgs_as_bytes(w) ==
    LET f1 == BytesOpt_as_bytes(w.lock)
        f2 == BytesOpt_as_bytes(w.input_type)
        f3 == BytesOpt_as_bytes(w.output_type)
    IN le32(16 + Len(f1) + Len(f2) + Len(f3))
       \o le32(16) \o le32(16 + Len(f1)) \o le32(16 + Len(f1) + Len(f2))
       \o f1 \o f2 \o f3

BytesOpt_from_slice(b) ==
    IF Len(b) = 0 THEN [ok |-> TRUE, value |-> None]
    ELSE IF Len(b) < 4 THEN [ok |-> FALSE]
    ELSE IF read_le32(b, 1) # Len(b) - 4 THEN [ok |-> FALSE]
    ELSE [ok |-> TRUE, value |-> Some(SubSeq(b, 5, Len(b)))]

\* WitnessArgs::from_slice: Ok(WitnessArgs) or a verification error
WitnessArgs_from_slice(b) ==
    IF Len(b) < 16 THEN [ok |-> FALSE]
    ELSE LET total == read_le32(b, 1)
             o1 == read_le32(b, 5)
             o2 == read_le32(b, 9)
             o3 == read_le32(b, 13)
         IN IF total # Len(b) \/ o1 # 16 \/ o2 < o1 \/ o3 < o2 \/ total < o3
            THEN [ok |-> FALSE]
            ELSE LET f1 == BytesOpt_from_slice(SubSeq(b, o1 + 1, o2))
                     f2 == BytesOpt_from_slice(SubSeq(b, o2 + 1, o3))
                     f3 == BytesOpt_from_slice(SubSeq(b, o3 + 1, total))
                 IN IF f1.ok /\ f2.ok /\ f3.ok
                    THEN [ok |-> TRUE,
                          value |-> WitnessArgs(f1.value, f2.value, f3.value)]
                    ELSE [ok |-> FALSE]

\* the hash function, as a 32-byte digest of a running checksum of the input
RECURSIVE Checksum(_, _, _)
Checksum(bytes, lo, hi) ==
    IF lo > hi THEN 0
    ELSE IF lo = hi THEN ((bytes[lo] + 1) * (((lo * lo) % 97) + 1)) % 65521
    ELSE LET mid == (lo + hi) \div 2
         IN (Checksum(bytes, lo, mid) + Checksum(bytes, mid + 1, hi)) % 65521

blake2b_256(bytes) ==
    LET h == Checksum(bytes, 1, Len(bytes)) IN [i \in 1..32 |-> (h + 7 * i) % 256]

\* blake2b_args: one hash over the arguments in order
blake2b_args(args) == blake2b_256(Concat(args))

\* serialize_signature: 64 bytes of compact signature, then the recovery id
serialize_signature(data, recov_id) == data \o <<recov_id>>

\* sign_with_privkey: the recoverable signature of the digest
sign_with_privkey(digest) ==
    [ok |-> TRUE,
     value |-> serialize_signature([i \in 1..64 |-> digest[((i - 1) % 32) + 1]],
                                   digest[1] % 4)]

\* sign_with_keystore on an account that is locked
sign_with_locked_keystore(digest) ==
    [ok |-> FALSE, error |-> "Account locked or not exists"]

Signers == {"privkey", "locked_keystore"}

signer_call(signer, digest) ==
    IF signer = "privkey" THEN sign_with_privkey(digest)
    ELSE sign_with_locked_keystore(digest)

\* a placeholder one byte short
placeholder_lock_64 == Zeros(64)

\* the lock placeholder of the signing preimage
placeholder_lock == Zeros(65)

\* a builder call that sets the lock and drops the other two fields
with_lock_only(witness_args, lock) == WitnessArgs(Some(lock), None, None)

\* WitnessArgs::as_builder().lock(Some(lock)).build()
with_lock(witness_args, lock) == [witness_args EXCEPT !.lock = Some(lock)]

\* witness 0 as build_secp_witnesses reads it: no bytes stand for the
\* default WitnessArgs
init_witness_of(witnesses) ==
    IF Len(witnesses[1]) = 0
    THEN [ok |-> TRUE, value |-> WitnessArgs_default]
    ELSE WitnessArgs_from_slice(witnesses[1])

\* the arguments of the signing hash, given witness 0 with its placeholder
sign_args_of(tx_hash, init_witness, witnesses) ==
    <<tx_hash, le64(Len(WitnessArgs_as_bytes(init_witness))),
      WitnessArgs_as_bytes(init_witness)>>
    \o Concat([i \in 1..(Len(witnesses) - 1) |->
                 <<le64(Len(witnesses[i + 1])), witnesses[i + 1]>>])

\* build_secp_witnesses: outcome "ok" with the new witnesses, "err" or
\* "panic"; calls lists the digests the signing callback was invoked with
build_secp_witnesses(tx_hash, witnesses, signer) ==
    IF Len(witnesses) = 0
    THEN [outcome |-> "panic", error |-> "index out of bounds", calls |-> << >>]
    ELSE
    LET parsed == init_witness_of(witnesses)
    IN IF ~parsed.ok
       THEN [outcome |-> "err", error |-> "witness verification", calls |-> << >>]
       ELSE IF IsSome(parsed.value.lock)
       THEN [outcome |-> "panic", error |-> "assertion failed: lock is none",
             calls |-> << >>]
       ELSE
       LET init_witness == with_lock(parsed.value, placeholder_lock)
           sign_args == sign_args_of(tx_hash, init_witness, witnesses)
           digest == blake2b_args(sign_args)
           signature == signer_call(signer, digest)
       IN IF ~signature.ok
          THEN [outcome |-> "err", error |-> signature.error, calls |-> <<digest>>]
          ELSE LET final_witness == with_lock(init_witness, signature.value)
               IN [outcome |-> "ok", error |-> "", calls |-> <<digest>>,
                   witnesses |-> [witnesses EXCEPT
                                     ![1] = WitnessArgs_as_bytes(final_witness)]]

\* the bytes the transaction hash covers: everything but the witnesses
RawTransactionBytes(tx) ==
    Concat([i \in 1..Len(tx.cell_deps) |-> <<IF tx.cell_deps[i] = "dao_dep" THEN 1 ELSE 2>>])
    \o Concat([i \in 1..Len(tx.header_deps) |-> <<tx.header_deps[i]>>])
    \o Concat([i \in 1..Len(tx.inputs) |->
                 <<tx.inputs[i].previous_output.tx_hash,
                   tx.inputs[i].previous_output.index>>
                 \o to_le_bytes(tx.inputs[i].since)])
    \o Concat([i \in 1..Len(tx.outputs) |->
                 <<tx.outputs[i].capacity % 256, tx.outputs[i].capacity \div 256,
                   IF tx.outputs[i].lock = lock_script THEN 1 ELSE 0,
                   Len(tx.outputs[i].type_)>>])
    \o Concat([i \in 1..Len(tx.outputs_data) |->
                 le32(Len(tx.outputs_data[i])) \o tx.outputs_data[i]])

\* TransactionView::hash
transaction_hash(tx) == blake2b_256(RawTransactionBytes(tx))

\* the cell dependencies of the signed transaction
sign_cell_deps(cell_deps) == Append(cell_deps, secp_dep)

\* DAOSubCommand::sign: install the owner's lock in every output, add the
\* secp cell dependency, sign
DAOSubCommand_sign(transaction, signer) ==
    LET outputs == [i \in 1..Len(transaction.outputs) |->
                       [transaction.outputs[i] EXCEPT !.lock = lock_script]]
        locked == [transaction EXCEPT !.outputs = outputs,
                                      !.cell_deps = sign_cell_deps(transaction.cell_deps)]
        tx_hash == transaction_hash(locked)
        built == build_secp_witnesses(tx_hash, locked.witnesses, signer)
    IN IF built.outcome = "ok"
       THEN Ok([locked EXCEPT !.witnesses = built.witnesses])
       ELSE IF built.outcome = "err" THEN Err(built.error)
       ELSE Panic(built.error)

----------------------------------------------------------------------------
(* Transaction Builder: prepare and withdraw                               *)

\* the part of a sequence that satisfies Test, in order
RECURSIVE SelectIdx(_, _, _)
SelectIdx(q, keep, i) ==
    IF i > Len(q) THEN << >>
    ELSE (IF keep[i] THEN <<q[i]>> ELSE << >>) \o SelectIdx(q, keep, i + 1)

\* the orders in which iterating a HashSet can yield its elements
HashSetOrders(S) ==
    { q \in [1..Cardinality(S) -> S] : \A i, j \in 1..Cardinality(S) : i # j => q[i] # q[j] }

Range(q) == { q[i] : i \in 1..Len(q) }

\* position (from 0) of the first element of q equal to x
Position(q, x) == (CHOOSE i \in 1..Len(q) : q[i] = x /\ \A j \in 1..(i - 1) : q[j] # x) - 1

\* one round of the loop of txo_headers
txo_header(op) ==
    LET tx_status == get_transaction(op.tx_hash) IN
    IF ~tx_status.ok THEN [outcome |-> "err", error |-> tx_status.error]
    ELSE IF IsNone(tx_status.block_hash)
    THEN [outcome |-> "err", error |-> "Tx is not on-chain"]
    ELSE IF IsNone(get_header(Unwrap(tx_status.block_hash)))
    THEN [outcome |-> "panic", error |-> "checked above"]
    ELSE IF op.index >= Len(tx_status.transaction.outputs)
    THEN [outcome |-> "err", error |-> "OutPoint is out of index"]
    ELSE [outcome |-> "ok", error |-> "",
          value |-> [out_point |-> op,
                     output |-> tx_status.transaction.outputs[op.index + 1],
                     header |-> Unwrap(get_header(Unwrap(tx_status.block_hash))),
                     hash |-> Unwrap(tx_status.block_hash)]]

\* DAOBuilder::txo_headers: the first failure, or (out_point, output, header)
\* of every out-point
txo_headers(out_points) ==
    LET rs == [i \in 1..Len(out_points) |-> txo_header(out_points[i])]
        failed == { i \in 1..Len(rs) : rs[i].outcome # "ok" }
    IN IF failed # {}
       THEN LET first == CHOOSE i \in failed : \A j \in failed : i <= j
            IN [outcome |-> rs[first].outcome, error |-> rs[first].error]
       ELSE [outcome |-> "ok", error |-> "",
             value |-> [i \in 1..Len(rs) |-> rs[i].value]]

\* a prepare that leaves the data of the deposit in place
prepare_output_data_kept(header) == Zeros(8)

\* the data of a prepare output: the deposit block's number
prepare_output_data(header) == to_le_bytes(U64FromNat(header.number))

\* a prepare witness of no bytes at all
prepare_witness_empty == << >>

\* the witness prepare gives every input: WitnessArgs with no field set
prepare_witness == WitnessArgs_as_bytes(WitnessArgs_default)

\* a prepare that lists the header of every Deposited input, repeats included
DAOBuilder_prepare_no_dedup(self, build) ==
    LET is_deposit == [i \in 1..Len(self.live_cells) |-> can_prepare(self.live_cells[i])]
        deposit_cells == SelectIdx(self.live_cells, is_deposit, 1)
        change_cells == SelectIdx(self.live_cells, [i \in 1..Len(is_deposit) |-> ~is_deposit[i]], 1)
        deposit_txo_headers ==
            txo_headers([i \in 1..Len(deposit_cells) |-> out_point(deposit_cells[i])])
    IN IF deposit_txo_headers.outcome = "err" THEN { Err(deposit_txo_headers.error) }
       ELSE IF deposit_txo_headers.outcome = "panic" THEN { Panic(deposit_txo_headers.error) }
       ELSE
       LET txos == deposit_txo_headers.value
           inputs == [i \in 1..Len(self.live_cells) |->
                         CellInput(out_point(self.live_cells[i]), U64Zero)]
           outputs == [i \in 1..Len(txos) |-> txos[i].output]
           outputs_data == [i \in 1..Len(txos) |-> prepare_output_data(txos[i].header)]
           cell_deps == <<dao_dep>>
           witnesses == [i \in 1..Len(inputs) |-> prepare_witness]
           change_capacity == u64_sub(SumSeq(Capacities(change_cells)), self.tx_fee, build)
       IN IF IsNone(change_capacity)
          THEN { Panic("attempt to subtract with overflow") }
          ELSE { Ok(Transaction(inputs,
                        Append(outputs, CellOutput(Unwrap(change_capacity), null_lock, None)),
                        Append(outputs_data, << >>),
                        cell_deps, header_deps, witnesses)) :
                 header_deps \in { [i \in 1..Len(txos) |-> txos[i].hash] } }

\* DAOBuilder::prepare: the results the call can have (the order of the
\* header dependencies is that of a HashSet)
DAOBuilder_prepare(self, build) ==
    LET is_deposit == [i \in 1..Len(self.live_cells) |-> can_prepare(self.live_cells[i])]
        deposit_cells == SelectIdx(self.live_cells, is_deposit, 1)
        change_cells == SelectIdx(self.live_cells, [i \in 1..Len(is_deposit) |-> ~is_deposit[i]], 1)
        deposit_txo_headers ==
            txo_headers([i \in 1..Len(deposit_cells) |-> out_point(deposit_cells[i])])
    IN IF deposit_txo_headers.outcome = "err" THEN { Err(deposit_txo_headers.error) }
       ELSE IF deposit_txo_headers.outcome = "panic" THEN { Panic(deposit_txo_headers.error) }
       ELSE
       LET txos == deposit_txo_headers.value
           inputs == [i \in 1..Len(self.live_cells) |->
                         CellInput(out_point(self.live_cells[i]), U64Zero)]
           outputs == [i \in 1..Len(txos) |-> txos[i].output]
           outputs_data == [i \in 1..Len(txos) |-> prepare_output_data(txos[i].header)]
           cell_deps == <<dao_dep>>
           witnesses == [i \in 1..Len(inputs) |-> prepare_witness]
           change_capacity == u64_sub(SumSeq(Capacities(change_cells)), self.tx_fee, build)
       IN IF IsNone(change_capacity)
          THEN { Panic("attempt to subtract with overflow") }
          ELSE { Ok(Transaction(inputs,
                        Append(outputs, CellOutput(Unwrap(change_capacity), null_lock, None)),
                        Append(outputs_data, << >>),
                        cell_deps, header_deps, witnesses)) :
                 header_deps \in HashSetOrders({ txos[i].hash : i \in 1..Len(txos) }) }

\* the RPC calculate_dao_maximum_withdraw of the node: the capacity of the
\* deposit cell plus the interest up to the withdrawing block (here one unit
\* per block), or an error when the out-point is no committed deposit cell
rpc_calculate_dao_maximum_withdraw(deposit_out_point, withdraw_block_hash) ==
    LET op == deposit_out_point IN
    IF /\ op.tx_hash \in 1..Len(txs)
       /\ IsSome(txs[op.tx_hash].block_hash)
       /\ op.index \in 0..(Len(txs[op.tx_hash].outputs) - 1)
       /\ withdraw_block_hash \in 1..Len(headers)
    THEN LET out == txs[op.tx_hash].outputs[op.index + 1]
             deposit_h == headers[Unwrap(txs[op.tx_hash].block_hash)]
             withdraw_h == headers[withdraw_block_hash]
         IN IF /\ is_dao_type(out.type_, dao_type_hash)
               /\ txs[op.tx_hash].outputs_data[op.index + 1] = Zeros(8)
               /\ withdraw_h.number >= deposit_h.number
            THEN [ok |-> TRUE,
                  value |-> out.capacity + (withdraw_h.number - deposit_h.number)]
            ELSE [ok |-> FALSE]
    ELSE [ok |-> FALSE]

\* a since that carries the epoch number alone, without index and length
withdraw_since_number_only(dep_header, prep_header) ==
    since_from_absolute_epoch_number(
        U64FromNat(minimal_unlock_point(dep_header, prep_header).number))

\* the since of a withdraw input
withdraw_since(dep_header, prep_header) ==
    since_from_absolute_epoch_number(
        full_value(minimal_unlock_point(dep_header, prep_header)))

\* a withdraw witness that always names header dependency 0
withdraw_witness_first(header_deps, deposit_hash) ==
    WitnessArgs_as_bytes(WitnessArgs(None, Some(le64(0)), None))

\* the witness of a withdraw input: the position of its deposit header
withdraw_witness(header_deps, deposit_hash) ==
    WitnessArgs_as_bytes(
        WitnessArgs(None, Some(le64(Position(header_deps, deposit_hash))), None))

\* DAOBuilder::withdraw: the results the call can have
DAOBuilder_withdraw(self, build) ==
    LET prepare_txo_headers ==
            txo_headers([i \in 1..Len(self.live_cells) |-> out_point(self.live_cells[i])])
    IN IF prepare_txo_headers.outcome = "err" THEN { Err(prepare_txo_headers.error) }
       ELSE IF prepare_txo_headers.outcome = "panic" THEN { Panic(prepare_txo_headers.error) }
       ELSE
       LET prepares == prepare_txo_headers.value
           no_input == { i \in 1..Len(prepares) :
                           prepares[i].out_point.index >=
                               Len(txs[prepares[i].out_point.tx_hash].inputs) }
       IN IF no_input # {}
          THEN { Panic("prepare out_point has the same index with deposit input") }
          ELSE
          LET deposit_out_points ==
                  [i \in 1..Len(prepares) |->
                      txs[prepares[i].out_point.tx_hash]
                          .inputs[prepares[i].out_point.index + 1].previous_output]
              deposit_txo_headers == txo_headers(deposit_out_points)
          IN IF deposit_txo_headers.outcome = "err" THEN { Err(deposit_txo_headers.error) }
             ELSE IF deposit_txo_headers.outcome = "panic"
             THEN { Panic(deposit_txo_headers.error) }
             ELSE
             LET deposits == deposit_txo_headers.value
                 inputs == [i \in 1..Len(prepares) |->
                               CellInput(prepares[i].out_point,
                                         withdraw_since(deposits[i].header,
                                                        prepares[i].header))]
                 maximums == [i \in 1..Len(prepares) |->
                                 rpc_calculate_dao_maximum_withdraw(
                                     deposits[i].out_point, prepares[i].hash)]
             IN IF \E i \in 1..Len(maximums) : ~maximums[i].ok
                THEN { Panic("RPC calculate_dao_maximum_withdraw failed") }
                ELSE
                LET total_capacity ==
                        SumSeq([i \in 1..Len(maximums) |-> maximums[i].value])
                    output_capacity == u64_sub(total_capacity, self.tx_fee, build)
                IN IF IsNone(output_capacity)
                   THEN { Panic("attempt to subtract with overflow") }
                   ELSE
                   { Ok(Transaction(inputs,
                            <<CellOutput(Unwrap(output_capacity), null_lock, None)>>,
                            << << >> >>,
                            <<dao_dep>>, header_deps,
                            [i \in 1..Len(deposits) |->
                                withdraw_witness(header_deps, deposits[i].hash)])) :
                     header_deps \in HashSetOrders(
                         { deposits[i].hash : i \in 1..Len(deposits) }
                         \cup { prepares[i].hash : i \in 1..Len(prepares) }) }

----------------------------------------------------------------------------
(* The `dao deposit` command                                               *)

\* the live cells of the owner's lock in the order the index scans them:
\* block number, transaction, output index
RECURSIVE SortedOutPoints(_)
SortedOutPoints(S) ==
    IF S = {} THEN << >>
    ELSE LET first == CHOOSE a \in S : \A b \in S :
                          \/ a.tx_hash < b.tx_hash
                          \/ (a.tx_hash = b.tx_hash /\ a.index <= b.index)
         IN <<first>> \o SortedOutPoints(S \ {first})

IndexLiveCells ==
    LET ops == SortedOutPoints(LiveOutPoints)
    IN [i \in 1..Len(ops) |-> LiveCellInfo(ops[i])]

\* a terminator that also takes a cell larger than the target
deposit_take_at_least(take_capacity, info_capacity, target_capacity) ==
    take_capacity + info_capacity >= target_capacity

\* whether the deposit terminator takes a cell that passed can_deposit
deposit_take(take_capacity, info_capacity, target_capacity) ==
    take_capacity + info_capacity = target_capacity

\* a transport failure of one RPC during a command: of get_live_cell for
\* one out-point, or of calculate_dao_maximum_withdraw
NoFault == [rpc |-> "none"]
LiveCellFault(op) == [rpc |-> "get_live_cell", at |-> op]
MaximumWithdrawFault == [rpc |-> "calculate_dao_maximum_withdraw"]

\* can_deposit, can_prepare and can_withdraw as Results: the `?` on
\* get_live_cell
can_deposit_rpc(info, fault) ==
    IF fault = LiveCellFault(out_point(info))
    THEN [ok |-> FALSE, error |-> "RPC get_live_cell error"]
    ELSE [ok |-> TRUE, value |-> can_deposit(info)]
can_prepare_rpc(info, fault) ==
    IF fault = LiveCellFault(out_point(info))
    THEN [ok |-> FALSE, error |-> "RPC get_live_cell error"]
    ELSE [ok |-> TRUE, value |-> can_prepare(info)]
can_withdraw_rpc(info, fault) ==
    IF fault = LiveCellFault(out_point(info))
    THEN [ok |-> FALSE, error |-> "RPC get_live_cell error"]
    ELSE [ok |-> TRUE, value |-> can_withdraw(info)]

\* Ok(true) != result: true of Ok(false) and of every Err
NotOkTrue(res) == ~(res.ok /\ res.value)

Skip(st) == [stop |-> FALSE, take |-> FALSE, st |-> st, panic |-> FALSE]
Take(st, value) ==
    [stop |-> TRUE, take |-> TRUE, panic |-> FALSE,
     st |-> [st EXCEPT !.take_capacity = st.take_capacity + value, !.enough = TRUE]]

\* the terminator closure of deposit: <<stop, take>> and its captured state
deposit_terminator(st, info, target_capacity, fault) ==
    IF NotOkTrue(can_deposit_rpc(info, fault)) THEN Skip(st)
    ELSE IF deposit_take(st.take_capacity, info.capacity, target_capacity)
    THEN Take(st, info.capacity)
    ELSE Skip(st)

\* the terminator closure of prepare
prepare_terminator(st, info, target_capacity, fault) ==
    IF NotOkTrue(can_prepare_rpc(info, fault)) THEN Skip(st)
    ELSE IF st.take_capacity + info.capacity = target_capacity
    THEN Take(st, info.capacity)
    ELSE Skip(st)

\* the RPC of calculate_dao_maximum_withdraw and its map_err
maximum_withdraw_result(maximum) ==
    IF maximum.ok THEN [outcome |-> "ok", error |-> "", value |-> maximum.value]
    ELSE [outcome |-> "err", error |-> "RPC calculate_dao_maximum_withdraw failed"]

\* calculate_dao_maximum_withdraw once the transaction of the cell is fetched
maximum_withdraw_of(tx, info, fault) ==
    IF ~tx.ok THEN [outcome |-> "err", error |-> tx.error]
    ELSE IF IsNone(tx.block_hash)
    THEN [outcome |-> "err",
          error |-> "invalid prepare out_point, the tx is not committed"]
    ELSE IF info.output_index >= Len(tx.transaction.inputs)
    THEN [outcome |-> "panic", error |-> "invalid prepare out_point"]
    ELSE IF fault = MaximumWithdrawFault
    THEN maximum_withdraw_result([ok |-> FALSE])
    ELSE maximum_withdraw_result(
             rpc_calculate_dao_maximum_withdraw(
                 tx.transaction.inputs[info.output_index + 1].previous_output,
                 Unwrap(tx.block_hash)))

\* ChainClient::calculate_dao_maximum_withdraw of a LiveCellInfo: outcome
\* "ok" with the value, "err", or "panic"
calculate_dao_maximum_withdraw(info, fault) ==
    maximum_withdraw_of(get_transaction(info.tx_hash), info, fault)

\* a withdraw that is content with a cell worth the target or more
withdraw_take_at_least(st, max_withdrawal, target_capacity) ==
    IF max_withdrawal.outcome # "ok" THEN [Skip(st) EXCEPT !.panic = TRUE]
    ELSE IF st.take_capacity + max_withdrawal.value >= target_capacity
    THEN Take(st, max_withdrawal.value)
    ELSE Skip(st)

\* the terminator of withdraw on a Prepared cell: the expect on the
\* maximum-withdraw value, then the comparison with the target
withdraw_take(st, max_withdrawal, target_capacity) ==
    IF max_withdrawal.outcome # "ok" THEN [Skip(st) EXCEPT !.panic = TRUE]
    ELSE IF st.take_capacity + max_withdrawal.value = target_capacity
    THEN Take(st, max_withdrawal.value)
    ELSE Skip(st)

\* the terminator closure of withdraw
withdraw_terminator(st, info, target_capacity, fault) ==
    IF NotOkTrue(can_withdraw_rpc(info, fault)) THEN Skip(st)
    ELSE withdraw_take(st, calculate_dao_maximum_withdraw(info, fault),
                       target_capacity)

terminator(op, st, info, target_capacity, fault) ==
    IF op = "dao deposit" THEN deposit_terminator(st, info, target_capacity, fault)
    ELSE IF op = "dao prepare" THEN prepare_terminator(st, info, target_capacity, fault)
    ELSE withdraw_terminator(st, info, target_capacity, fault)

\* IndexDatabase::get_live_cells_by_lock with the terminator of op: the
\* cells taken and the closure's state when the scan ends
RECURSIVE get_live_cells_by_lock(_, _, _, _, _, _)
scan_step(t, cells, infos, target_capacity, op, fault) ==
    IF t.panic THEN [st |-> t.st, infos |-> infos, panic |-> TRUE]
    ELSE IF t.stop
    THEN [st |-> t.st, panic |-> FALSE,
          infos |-> IF t.take THEN Append(infos, Head(cells)) ELSE infos]
    ELSE get_live_cells_by_lock(Tail(cells), t.st,
                                IF t.take THEN Append(infos, Head(cells)) ELSE infos,
                                target_capacity, op, fault)
\* a scan that offers the cells of the index from the last to the first
get_live_cells_by_lock_from_last(cells, st, infos, target_capacity, op, fault) ==
    IF Len(cells) = 0 THEN [st |-> st, infos |-> infos, panic |-> FALSE]
    ELSE scan_step(terminator(op, st, cells[Len(cells)], target_capacity, fault),
                   <<cells[Len(cells)]>> \o SubSeq(cells, 1, Len(cells) - 1),
                   infos, target_capacity, op, fault)

get_live_cells_by_lock(cells, st, infos, target_capacity, op, fault) ==
    IF Len(cells) = 0 THEN [st |-> st, infos |-> infos, panic |-> FALSE]
    ELSE scan_step(terminator(op, st, Head(cells), target_capacity, fault),
                   cells, infos, target_capacity, op, fault)

scan_start == [take_capacity |-> 0, enough |-> FALSE]

NoCommandTx(ret, infos) == [ret |-> ret, infos |-> infos, sent |-> << >>]

\* send_transaction of the signed transaction
send_signed(signed, infos) ==
    IF signed.outcome # "ok" THEN NoCommandTx(signed, infos)
    ELSE [ret |-> signed, infos |-> infos, sent |-> <<Unwrap(signed.tx)>>]

\* a tail that submits the built transaction whatever the signer answers
sign_and_send_unsigned(built, infos, signer) ==
    IF built.outcome # "ok" THEN NoCommandTx(built, infos)
    ELSE [ret |-> DAOSubCommand_sign(Unwrap(built.tx), signer), infos |-> infos,
          sent |-> <<Unwrap(built.tx)>>]

\* the tail of every command: sign the built transaction and send it
sign_and_send(built, infos, signer) ==
    IF built.outcome # "ok" THEN NoCommandTx(built, infos)
    ELSE send_signed(DAOSubCommand_sign(Unwrap(built.tx), signer), infos)

\* DAOSubCommand::deposit after its scan; build() hands capacity and fee of
\* the command line to DAOBuilder::new
deposit_scanned(scan, capacity, tx_fee, signer, build) ==
    IF ~scan.st.enough THEN NoCommandTx(Err("Capacity not enough"), scan.infos)
    ELSE sign_and_send(DAOBuilder_deposit(DAOBuilder(capacity, tx_fee, scan.infos), build),
                       scan.infos, signer)

\* DAOSubCommand::deposit
DAOSubCommand_deposit(capacity, tx_fee, index_ready, signer, build, fault) ==
    IF ~index_ready THEN NoCommandTx(Err("index database may not ready"), << >>)
    ELSE deposit_scanned(
             get_live_cells_by_lock(IndexLiveCells, scan_start, << >>,
                                    capacity + tx_fee, "dao deposit", fault),
             capacity, tx_fee, signer, build)

\* DAOSubCommand::prepare after its scan
prepare_scanned(scan, capacity, tx_fee, signer, build) ==
    IF ~scan.st.enough THEN { NoCommandTx(Err("Capacity not enough"), scan.infos) }
    ELSE { sign_and_send(built, scan.infos, signer) :
             built \in DAOBuilder_prepare(DAOBuilder(capacity, tx_fee, scan.infos),
                                          build) }

\* DAOSubCommand::prepare: the results the command can have
DAOSubCommand_prepare(capacity, tx_fee, index_ready, signer, build, fault) ==
    IF ~index_ready THEN { NoCommandTx(Err("index database may not ready"), << >>) }
    ELSE IF tx_fee # 0
    THEN { NoCommandTx(Panic("assertion failed: tx_fee == 0"), << >>) }
    ELSE prepare_scanned(
             get_live_cells_by_lock(IndexLiveCells, scan_start, << >>,
                                    capacity, "dao prepare", fault),
             capacity, tx_fee, signer, build)

\* DAOSubCommand::withdraw after its scan
withdraw_scanned(scan, capacity, tx_fee, signer, build) ==
    IF scan.panic
    THEN { NoCommandTx(Panic("RPC calculate_dao_maximum_withdraw for a prepare cell"),
                       scan.infos) }
    ELSE IF ~scan.st.enough
    THEN { NoCommandTx(Err("Capacity not enough"), scan.infos) }
    ELSE { sign_and_send(built, scan.infos, signer) :
             built \in DAOBuilder_withdraw(DAOBuilder(capacity, tx_fee, scan.infos),
                                           build) }

\* DAOSubCommand::withdraw: the results the command can have
DAOSubCommand_withdraw(capacity, tx_fee, index_ready, signer, build, fault) ==
    IF ~index_ready THEN { NoCommandTx(Err("index database may not ready"), << >>) }
    ELSE withdraw_scanned(
             get_live_cells_by_lock(IndexLiveCells, scan_start, << >>,
                                    capacity + tx_fee, "dao withdraw", fault),
             capacity, tx_fee, signer, build)

----------------------------------------------------------------------------
(* The builder as a state machine: construct a DAOBuilder over cells of    *)
(* the index and call one operation                                        *)

DepositCapacities == {100}
TxFees == {0, 4}
\* withdraw is also asked for a fee above any total it can collect
WithdrawFees == TxFees \cup {2000}

InitBuilder ==
    /\ EpochIdle
    /\ ClassifierIdle
    /\ ChainIdle

\* the record of a call: what was called with what, and what came back
Call(op, self, ret) ==
    [op |-> op, capacity |-> self.capacity, tx_fee |-> self.tx_fee,
     live_cells |-> self.live_cells, outcome |-> ret.outcome,
     error |-> ret.error, tx |-> ret.tx]

\* the record of a command: its arguments, the cells it selected, what it
\* returned and the transactions it sent to the node
Command(op, capacity, tx_fee, index_ready, signer, fault, run) ==
    [op |-> op, capacity |-> capacity, tx_fee |-> tx_fee,
     index_ready |-> index_ready, signer |-> signer, fault |-> fault,
     live_cells |-> run.infos, outcome |-> run.ret.outcome,
     error |-> run.ret.error, tx |-> run.ret.tx, sent |-> run.sent]

\* entries of the index database that the node does not back: output 0 of
\* a transaction still in the pool, and an index past the last output of
\* the genesis transaction
StaleCellInfos ==
    { [tx_hash |-> t, output_index |-> 0,
       capacity |-> txs[t].outputs[1].capacity, number |-> Tip.number + 1] :
        t \in { u \in 1..Len(txs) : IsNone(txs[u].block_hash) } }
    \cup { [tx_hash |-> 1, output_index |-> Len(txs[1].outputs),
            capacity |-> GenesisCapacities[1], number |-> 0] }

\* the cell lists a DAOBuilder is constructed with
SelectableCells ==
    DistinctSeqs({ LiveCellInfo(op) : op \in LiveOutPoints } \cup StaleCellInfos,
                 MaxSelected)

BuildDeposit ==
    \E capacity \in DepositCapacities, tx_fee \in TxFees,
       live_cells \in SelectableCells, build \in OverflowBuilds :
        LET self == DAOBuilder(capacity, tx_fee, live_cells) IN
        /\ result = None
        /\ result' = Some(Call("deposit", self, DAOBuilder_deposit(self, build)))
        /\ UNCHANGED <<deposit_header, prepare_header, unlock_point, cell, verdict,
                       headers, txs, spent>>

BuildPrepare ==
    \E capacity \in DepositCapacities, tx_fee \in TxFees,
       live_cells \in SelectableCells, build \in OverflowBuilds :
        LET self == DAOBuilder(capacity, tx_fee, live_cells) IN
        /\ result = None
        /\ \E ret \in DAOBuilder_prepare(self, build) :
              result' = Some(Call("prepare", self, ret))
        /\ UNCHANGED <<deposit_header, prepare_header, unlock_point, cell, verdict,
                       headers, txs, spent>>

BuildWithdraw ==
    \E capacity \in DepositCapacities, tx_fee \in WithdrawFees,
       live_cells \in SelectableCells, build \in OverflowBuilds :
        LET self == DAOBuilder(capacity, tx_fee, live_cells) IN
        /\ result = None
        /\ \E ret \in DAOBuilder_withdraw(self, build) :
              result' = Some(Call("withdraw", self, ret))
        /\ UNCHANGED <<deposit_header, prepare_header, unlock_point, cell, verdict,
                       headers, txs, spent>>

\* the ways a command is run: the state of the index, the signer, the
\* build, and the RPC that fails, if one does
Faults ==
    {NoFault, MaximumWithdrawFault} \cup { LiveCellFault(op) : op \in LiveOutPoints }
Runs ==
    { [index_ready |-> TRUE, signer |-> g, build |-> b, fault |-> f] :
        g \in Signers, b \in OverflowBuilds, f \in Faults }
    \cup { [index_ready |-> FALSE, signer |-> "privkey", build |-> "release",
            fault |-> NoFault] }

WithdrawCapacities == {101, 104}

CommandDeposit ==
    \E capacity \in DepositCapacities, tx_fee \in TxFees, run \in Runs :
        /\ result = None
        /\ result' = Some(Command("dao deposit", capacity, tx_fee, run.index_ready,
                              run.signer, run.fault,
                              DAOSubCommand_deposit(capacity, tx_fee, run.index_ready,
                                                    run.signer, run.build, run.fault)))
        /\ UNCHANGED <<deposit_header, prepare_header, unlock_point, cell, verdict,
                       headers, txs, spent>>

CommandPrepare ==
    \E capacity \in DepositCapacities, tx_fee \in TxFees, run \in Runs :
        /\ result = None
        /\ \E ran \in DAOSubCommand_prepare(capacity, tx_fee, run.index_ready,
                                            run.signer, run.build, run.fault) :
              result' = Some(Command("dao prepare", capacity, tx_fee, run.index_ready,
                                 run.signer, run.fault, ran))
        /\ UNCHANGED <<deposit_header, prepare_header, unlock_point, cell, verdict,
                       headers, txs, spent>>

CommandWithdraw ==
    \E capacity \in WithdrawCapacities, tx_fee \in TxFees, run \in Runs :
        /\ result = None
        /\ \E ran \in DAOSubCommand_withdraw(capacity, tx_fee, run.index_ready,
                                             run.signer, run.build, run.fault) :
              result' = Some(Command("dao withdraw", capacity, tx_fee, run.index_ready,
                                 run.signer, run.fault, ran))
        /\ UNCHANGED <<deposit_header, prepare_header, unlock_point, cell, verdict,
                       headers, txs, spent>>

Next ==
    \/ MineDeposit
    \/ MinePrepare
    \/ PoolDeposit
    \/ MinePool
    \/ BuildDeposit
    \/ BuildPrepare
    \/ BuildWithdraw
    \/ CommandDeposit
    \/ CommandPrepare
    \/ CommandWithdraw

Spec == InitBuilder /\ [][Next]_vars

----------------------------------------------------------------------------
(* build_secp_witnesses on its own: a request is signed                    *)

\* witnesses per request
MaxWitnesses == 2

\* witnesses a request can hold: no bytes, the default WitnessArgs, one
\* with an input_type, one with input_type and output_type, one whose lock
\* is already set, and bytes that are no WitnessArgs
WitnessSamples ==
    { << >>,
      WitnessArgs_as_bytes(WitnessArgs_default),
      WitnessArgs_as_bytes(WitnessArgs(None, Some(le64(1)), None)),
      WitnessArgs_as_bytes(WitnessArgs(None, Some(<<7>>), Some(<<9, 9>>))),
      WitnessArgs_as_bytes(WitnessArgs(Some(placeholder_lock), None, None)),
      <<1, 2, 3>> }

WitnessLists == UNION { [1..n -> WitnessSamples] : n \in 1..MaxWitnesses }

SignerTxHashes == { blake2b_256(<<1>>), blake2b_256(<<2>>) }

SignRequest(tx_hash, witnesses, signer) ==
    [op |-> "sign request", tx_hash |-> tx_hash, witnesses |-> witnesses,
     signer |-> signer]

InitSigner ==
    /\ EpochIdle
    /\ ClassifierIdle
    /\ headers = <<GenesisHeader>>
    /\ txs = <<GenesisTx>>
    /\ spent = {}
    /\ result \in { Some(SignRequest(h, w, g)) :
                      h \in SignerTxHashes, w \in WitnessLists, g \in Signers }

\* the request is answered by build_secp_witnesses
Sign ==
    /\ IsSome(result)
    /\ Unwrap(result).op = "sign request"
    /\ LET q == Unwrap(result)
           built == build_secp_witnesses(q.tx_hash, q.witnesses, q.signer)
       IN result' = Some([op |-> "build_secp_witnesses", request |-> q,
                          outcome |-> built.outcome, error |-> built.error,
                          calls |-> built.calls,
                          witnesses |-> IF built.outcome = "ok"
                                        THEN Some(built.witnesses) ELSE None])
    /\ UNCHANGED <<deposit_header, prepare_header, unlock_point, cell, verdict,
                   headers, txs, spent>>

NextSigner == Sign

SpecSigner == InitSigner /\ [][NextSigner]_vars

----------------------------------------------------------------------------
(* Claims on Epoch Arithmetic (checked under SpecEpoch)                    *)

\* least multiple of LOCK_PERIOD_EPOCHES that is >= n
CeilPeriods(n) ==
    CHOOSE m \in { 180 * k : k \in 0..((n \div 180) + 1) } :
        m >= n /\ m - 180 < n

\* C1: minimal_unlock_point(d, p) = (d.number + periods, d.index, d.length)
\* with elapsed = p.number - d.number + 1 when p.index * d.length is strictly
\* greater than d.index * p.length, p.number - d.number otherwise, and
\* periods = ceil(elapsed / 180) * 180.
C1_UnlockPointFormula ==
    IsSome(unlock_point) =>
        LET d == deposit_header.epoch
            p == prepare_header.epoch
            elapsed == IF p.index * d.length > d.index * p.length
                       THEN p.number - d.number + 1
                       ELSE p.number - d.number
        IN Unwrap(unlock_point) =
              [number |-> d.number + CeilPeriods(elapsed),
               index |-> d.index, length |-> d.length]

\* a larger fraction one period after the deposit costs one more period
C1_Witness ==
    /\ deposit_header.epoch = EpochNumberWithFraction(0, 1, 3)
    /\ prepare_header.epoch = EpochNumberWithFraction(180, 2, 3)
    /\ unlock_point = Some(EpochNumberWithFraction(360, 1, 3))

\* a is not earlier than b, as the rationals number + index / length
NotEarlier(a, b) ==
    (a.number * a.length + a.index) * b.length
        >= (b.number * b.length + b.index) * a.length

Advance(d, epochs) == [d EXCEPT !.number = d.number + epochs]

\* C2: the unlock point is the deposit point advanced by 180 * k epochs for
\* the least k >= 0 that makes it not earlier than the prepare point, and
\* every vector of the test table gives the expected point.
C2_MinimalEligible ==
    IsSome(unlock_point) =>
        LET d == deposit_header.epoch
            p == prepare_header.epoch
            u == Unwrap(unlock_point)
        IN /\ (d.index < d.length /\ p.index < p.length /\ NotEarlier(p, d)) =>
                 \E k \in 0..((MaxSpan \div 180) + 2) :
                    /\ u = Advance(d, 180 * k)
                    /\ NotEarlier(u, p)
                    /\ \A j \in 0..(k - 1) : ~NotEarlier(Advance(d, 180 * j), p)
           /\ \A t \in TestCases :
                 (d = HeaderOfPoint(t[1]).epoch /\ p = HeaderOfPoint(t[2]).epoch)
                     => u = HeaderOfPoint(t[3]).epoch

\* the tie-break vector of the table: 6/1000 > 5/1000 at the boundary epoch
C2_Witness ==
    /\ deposit_header.epoch = EpochNumberWithFraction(5, 5, 1000)
    /\ prepare_header.epoch = EpochNumberWithFraction(185, 6, 1000)
    /\ unlock_point = Some(EpochNumberWithFraction(365, 5, 1000))

\* C3: with the deposit point fixed, the unlock epoch number does not
\* decrease when the prepare point's epoch number grows (same index and
\* length).
C3_MonotoneInPrepareNumber ==
    IsSome(unlock_point) =>
        \A n2 \in prepare_header.epoch.number..(deposit_header.epoch.number + MaxSpan) :
            minimal_unlock_point(deposit_header,
                [prepare_header EXCEPT !.epoch.number = n2]).number
                >= Unwrap(unlock_point).number

\* a prepare in the first period, with later prepares in the next periods
C3_Witness ==
    /\ deposit_header.epoch = EpochNumberWithFraction(5, 0, 2)
    /\ prepare_header.epoch = EpochNumberWithFraction(100, 1, 2)
    /\ unlock_point = Some(EpochNumberWithFraction(185, 0, 2))

----------------------------------------------------------------------------
(* Claims on the Cell Classifier (checked under SpecClassifier)            *)

SnapshotLive == cell.status = "live" /\ IsSome(cell.cell)
SnapshotLockIsSecp == Unwrap(cell.cell).output.lock = Script(secp_type_hash, "type")
SnapshotTypeIsDao ==
    Unwrap(cell.cell).output.type_ = Some(Script(dao_type_hash, "type"))
SnapshotData == Unwrap(cell.cell).data
AllZero(bytes) == \A i \in 1..Len(bytes) : bytes[i] = 0

SnapshotFree ==
    /\ SnapshotLive /\ SnapshotLockIsSecp
    /\ IsNone(Unwrap(cell.cell).output.type_)
    /\ SnapshotData = << >>
SnapshotDeposited ==
    /\ SnapshotLive /\ SnapshotLockIsSecp /\ SnapshotTypeIsDao
    /\ Len(SnapshotData) = 8 /\ AllZero(SnapshotData)
SnapshotPrepared ==
    /\ SnapshotLive /\ SnapshotLockIsSecp /\ SnapshotTypeIsDao
    /\ Len(SnapshotData) = 8 /\ ~AllZero(SnapshotData)

\* C5: can_spend / can_deposit hold exactly for Free snapshots, can_prepare
\* exactly for Deposited ones, can_withdraw exactly for Prepared ones; a
\* snapshot that is not live, or has a type script and data of a length
\* other than 8, satisfies none of them.
C5_ClassifierAgrees ==
    IsSome(verdict) =>
        LET v == Unwrap(verdict) IN
        /\ v.can_spend = SnapshotFree
        /\ v.can_deposit = SnapshotFree
        /\ v.can_prepare = SnapshotDeposited
        /\ v.can_withdraw = SnapshotPrepared
        /\ ( \/ ~SnapshotLive
             \/ (IsSome(Unwrap(cell.cell).output.type_) /\ Len(SnapshotData) # 8) )
              => (~v.can_spend /\ ~v.can_deposit /\ ~v.can_prepare /\ ~v.can_withdraw)

\* an ordinary cell is classified as spendable
C5_Witness ==
    /\ IsSome(verdict)
    /\ SnapshotFree
    /\ Unwrap(verdict).can_spend
    /\ ~Unwrap(verdict).can_prepare

\* C6: at most one of can_deposit, can_prepare, can_withdraw holds; a cell
\* built as Deposited is Deposited only; with any single byte of its data
\* made non-zero it is Prepared and no longer Deposited.
C6_ExclusiveAndFlip ==
    IsSome(verdict) =>
        LET v == Unwrap(verdict)
            builtAsDao == SnapshotLive /\ SnapshotLockIsSecp /\ SnapshotTypeIsDao
        IN /\ ~(v.can_deposit /\ v.can_prepare)
           /\ ~(v.can_deposit /\ v.can_withdraw)
           /\ ~(v.can_prepare /\ v.can_withdraw)
           /\ (builtAsDao /\ SnapshotData = Zeros(8))
                 => (v.can_prepare /\ ~v.can_withdraw /\ ~v.can_deposit)
           /\ \A k \in 1..8 : \A b \in ByteSamples \ {0} :
                 (builtAsDao /\ SnapshotData = [Zeros(8) EXCEPT ![k] = b])
                    => (v.can_withdraw /\ ~v.can_prepare /\ ~v.can_deposit)

\* the most significant byte alone makes a deposit cell a prepared one
C6_Witness ==
    /\ IsSome(verdict)
    /\ SnapshotLive /\ SnapshotLockIsSecp /\ SnapshotTypeIsDao
    /\ SnapshotData = [Zeros(8) EXCEPT ![8] = 255]
    /\ Unwrap(verdict).can_withdraw

----------------------------------------------------------------------------
(* Claims on DAOBuilder::deposit (checked under Spec)                      *)

Returned(op) == IsSome(result) /\ Unwrap(result).op = op
ReturnedOk(op) == Returned(op) /\ Unwrap(result).outcome = "ok"
ResultTx == Unwrap(Unwrap(result).tx)
InputTotal == SumSeq(Capacities(Unwrap(result).live_cells))

\* C7: a deposit transaction spends exactly the selected cells in order,
\* each with since 0; output 0 has the requested capacity, the DAO type
\* script and 8 zero bytes of data; the only cell dependency is the DAO
\* one and there are no header dependencies.
C7_DepositShape ==
    ReturnedOk("deposit") =>
        LET r == Unwrap(result)
            tx == ResultTx
        IN /\ Len(tx.inputs) = Len(r.live_cells)
           /\ \A i \in 1..Len(r.live_cells) :
                 /\ tx.inputs[i].previous_output =
                       [tx_hash |-> r.live_cells[i].tx_hash,
                        index |-> r.live_cells[i].output_index]
                 /\ tx.inputs[i].since = <<0, 0, 0, 0>>
           /\ Len(tx.outputs) >= 1
           /\ tx.outputs[1].capacity = r.capacity
           /\ tx.outputs[1].type_ = Some([code_hash |-> dao_type_hash, hash_type |-> "type"])
           /\ tx.outputs_data[1] = <<0, 0, 0, 0, 0, 0, 0, 0>>
           /\ tx.cell_deps = <<dao_dep>>
           /\ tx.header_deps = << >>

\* a deposit built from two cells
C7_Witness ==
    /\ ReturnedOk("deposit")
    /\ Len(Unwrap(result).live_cells) = 2
    /\ Len(ResultTx.inputs) = 2
    /\ ResultTx.inputs[1] # ResultTx.inputs[2]

\* C8: inputs totalling exactly capacity + fee give one output and no
\* change cell; a positive remainder gives exactly two outputs, the second
\* a change output without type script, with empty data and capacity
\* input total - capacity - fee.
C8_DepositChange ==
    Returned("deposit") =>
        LET r == Unwrap(result) IN
        /\ InputTotal = r.capacity + r.tx_fee =>
              /\ r.outcome = "ok"
              /\ Len(ResultTx.outputs) = 1
              /\ Len(ResultTx.outputs_data) = 1
        /\ InputTotal > r.capacity + r.tx_fee =>
              /\ r.outcome = "ok"
              /\ Len(ResultTx.outputs) = 2
              /\ Len(ResultTx.outputs_data) = 2
              /\ ResultTx.outputs[2].capacity = InputTotal - r.capacity - r.tx_fee
              /\ ResultTx.outputs[2].type_ = None
              /\ ResultTx.outputs_data[2] = << >>

\* a remainder of zero: the deposit output stands alone
C8_Witness ==
    /\ ReturnedOk("deposit")
    /\ InputTotal = Unwrap(result).capacity + Unwrap(result).tx_fee
    /\ Unwrap(result).tx_fee > 0
    /\ Len(ResultTx.outputs) = 1

----------------------------------------------------------------------------
(* Claims on the `dao deposit` command (checked under Spec)                *)

\* the account holds exactly one Free cell, and the index, the node's RPC
\* and the signer of the command work
SingleFreeCell(r) ==
    /\ Cardinality(FreeOutPoints) = 1
    /\ r.index_ready
    /\ r.fault = NoFault
    /\ r.signer = "privkey"
TheFreeCapacity == LiveCellInfo(CHOOSE op \in FreeOutPoints : TRUE).capacity

\* the lock field of a witness is n bytes long
LockFieldLen(witness, n) ==
    LET w == WitnessArgs_from_slice(witness)
    IN w.ok /\ IsSome(w.value.lock) /\ Len(Unwrap(w.value.lock)) = n

----------------------------------------------------------------------------
(* Claims about the prepare and withdraw transactions                      *)

\* the cell a selected info points at, read from the chain
ChainOutput(info) == txs[info.tx_hash].outputs[info.output_index + 1]
ChainData(info) == txs[info.tx_hash].outputs_data[info.output_index + 1]
CommittingHeader(info) == headers[Unwrap(txs[info.tx_hash].block_hash)]
HasDaoType(info) ==
    /\ IsLiveOutPoint([tx_hash |-> info.tx_hash, index |-> info.output_index])
    /\ ChainOutput(info).type_ = Some([code_hash |-> dao_type_hash, hash_type |-> "type"])
IsDepositedInfo(info) == HasDaoType(info) /\ AllZero(ChainData(info))
IsPreparedInfo(info) ==
    HasDaoType(info) /\ Len(ChainData(info)) = 8 /\ ~AllZero(ChainData(info))

\* 8 bytes, least significant first, of a number below 2^31
LittleEndian8(n) ==
    <<n % 256, (n \div 256) % 256, (n \div 65536) % 256, (n \div 16777216) % 256,
      0, 0, 0, 0>>
FromLittleEndian4(b) == b[1] + 256 * b[2] + 65536 * b[3] + 16777216 * (b[4] % 128)

DepositedOf(r) ==
    SelectIdx(r.live_cells,
              [i \in 1..Len(r.live_cells) |-> IsDepositedInfo(r.live_cells[i])], 1)
FeeCoveringTotal(r) == SumSeq(Capacities(r.live_cells)) - SumSeq(Capacities(DepositedOf(r)))

\* C10: a prepare transaction spends all selected cells; for each Deposited
\* input it has one output of the same capacity and type script whose data
\* is the little-endian 8-byte number of the block that committed the
\* deposit; it has exactly one more output, the change, with no type, empty
\* data and capacity = total of the non-Deposited inputs minus the fee.
C10_PrepareOutputs ==
    ReturnedOk("prepare") =>
        LET r == Unwrap(result)
            tx == ResultTx
            dep == DepositedOf(r)
            n == Len(dep)
        IN /\ Len(tx.inputs) = Len(r.live_cells)
           /\ \A i \in 1..Len(r.live_cells) :
                 tx.inputs[i].previous_output =
                     [tx_hash |-> r.live_cells[i].tx_hash,
                      index |-> r.live_cells[i].output_index]
           /\ Len(tx.outputs) = n + 1
           /\ Len(tx.outputs_data) = n + 1
           /\ \A k \in 1..n :
                 /\ tx.outputs[k].capacity = dep[k].capacity
                 /\ tx.outputs[k].type_ = ChainOutput(dep[k]).type_
                 /\ tx.outputs_data[k] = LittleEndian8(CommittingHeader(dep[k]).number)
           /\ tx.outputs[n + 1].type_ = None
           /\ tx.outputs_data[n + 1] = << >>
           /\ tx.outputs[n + 1].capacity = FeeCoveringTotal(r) - r.tx_fee

\* the fields packed into a since value
SinceFlags(since) == since[4] \div 256
SinceLength(since) == since[3] \div 256 + 256 * (since[4] % 256)
SinceIndex(since) == since[2] \div 256 + 256 * (since[3] % 256)
SinceNumber(since) == since[1] + 65536 * (since[2] % 256)

\* the header of the block whose number a Prepared cell carries in its data
OwnDepositHeader(info) ==
    headers[CHOOSE h \in 1..Len(headers) :
                headers[h].number = FromLittleEndian4(ChainData(info))]
OwnUnlockPoint(info) == minimal_unlock_point(OwnDepositHeader(info), CommittingHeader(info))
AllPrepared(r) == \A i \in 1..Len(r.live_cells) : IsPreparedInfo(r.live_cells[i])
ReferencesSelected(r, tx) ==
    /\ Len(tx.inputs) = Len(r.live_cells)
    /\ \A i \in 1..Len(r.live_cells) :
          tx.inputs[i].previous_output =
              [tx_hash |-> r.live_cells[i].tx_hash,
               index |-> r.live_cells[i].output_index]

\* C4 as stated: input i of a withdraw transaction references the i-th
\* selected Prepared cell and its since is 0x2000000000000000 | epoch_number,
\* the epoch number of the unlock point of that cell's own deposit and
\* prepare headers and nothing else.
C4_SinceIsFlagOrNumber ==
    (ReturnedOk("withdraw") /\ AllPrepared(Unwrap(result))) =>
        LET r == Unwrap(result)
            tx == ResultTx
        IN /\ ReferencesSelected(r, tx)
           /\ \A i \in 1..Len(r.live_cells) :
                 LET number == OwnUnlockPoint(r.live_cells[i]).number
                 IN tx.inputs[i].since = <<number % 65536, number \div 65536, 0, 8192>>

\* C4: input i of a withdraw transaction references the i-th selected
\* Prepared cell and its since is 0x2000000000000000 (bit 61) or-ed with
\* the full value of the unlock point of that cell's own deposit and prepare
\* headers: number in bits 0..23, index in bits 24..39, length in bits 40..55.
C4_SinceIsFlagOrFullValue ==
    (ReturnedOk("withdraw") /\ AllPrepared(Unwrap(result))) =>
        LET r == Unwrap(result)
            tx == ResultTx
        IN /\ ReferencesSelected(r, tx)
           /\ \A i \in 1..Len(r.live_cells) :
                 LET unlock == OwnUnlockPoint(r.live_cells[i])
                     since == tx.inputs[i].since
                 IN /\ SinceFlags(since) = 32
                    /\ SinceNumber(since) = unlock.number
                    /\ SinceIndex(since) = unlock.index
                    /\ SinceLength(since) = unlock.length

\* a withdraw of two Prepared cells whose deposits were committed by
\* different blocks, so that their since values differ
C4_Witness ==
    /\ ReturnedOk("withdraw")
    /\ AllPrepared(Unwrap(result))
    /\ Len(ResultTx.inputs) = 2
    /\ ResultTx.inputs[1].since # ResultTx.inputs[2].since
    /\ SinceIndex(ResultTx.inputs[1].since) > 0


\* the header dependency a witness points at through its input_type field,
\* or None when the witness is no WitnessArgs with such a field
WitnessHeaderDep(tx, i) ==
    LET w == WitnessArgs_from_slice(tx.witnesses[i]) IN
    IF ~w.ok THEN None
    ELSE IF IsNone(w.value.input_type) THEN None
    ELSE IF Len(Unwrap(w.value.input_type)) # 8 THEN None
    ELSE LET k == FromLittleEndian4(Unwrap(w.value.input_type)) IN
         IF k < Len(tx.header_deps) THEN Some(tx.header_deps[k + 1]) ELSE None

CommittingHash(info) == Unwrap(txs[info.tx_hash].block_hash)

\* C11 as stated: in a prepare transaction the witness of every Deposited
\* input carries in input_type the index, in header_deps, of the header of
\* the block that committed that deposit; the witnesses of the fee-covering
\* inputs are empty.
C11_WitnessIndexesHeader ==
    ReturnedOk("prepare") =>
        LET r == Unwrap(result)
            tx == ResultTx
        IN /\ Len(tx.witnesses) = Len(r.live_cells)
           /\ \A i \in 1..Len(r.live_cells) :
                 IF IsDepositedInfo(r.live_cells[i])
                 THEN WitnessHeaderDep(tx, i) = Some(CommittingHash(r.live_cells[i]))
                 ELSE tx.witnesses[i] = << >>

\* C11: in a prepare transaction every input, Deposited or fee-covering,
\* has the same witness: the 16 bytes of a WitnessArgs whose lock,
\* input_type and output_type are all absent; no witness carries an index
\* into header_deps.
C11_WitnessesAreDefault ==
    ReturnedOk("prepare") =>
        LET r == Unwrap(result)
            tx == ResultTx
        IN /\ Len(tx.witnesses) = Len(r.live_cells)
           /\ \A i \in 1..Len(r.live_cells) :
                 /\ tx.witnesses[i] = <<16, 0, 0, 0, 16, 0, 0, 0, 16, 0, 0, 0, 16, 0, 0, 0>>
                 /\ WitnessArgs_from_slice(tx.witnesses[i]).ok
                 /\ WitnessArgs_from_slice(tx.witnesses[i]).value =
                       [lock |-> None, input_type |-> None, output_type |-> None]
                 /\ WitnessHeaderDep(tx, i) = None

\* a prepare of a Deposited cell together with a fee-covering Free cell
C11_Witness ==
    /\ ReturnedOk("prepare")
    /\ Len(Unwrap(result).live_cells) = 2
    /\ \E i, j \in 1..2 :
          /\ IsDepositedInfo(Unwrap(result).live_cells[i])
          /\ ~IsDepositedInfo(Unwrap(result).live_cells[j])
    /\ Len(ResultTx.header_deps) = 1


\* the hash of the block whose number a Prepared cell carries in its data
OwnDepositHash(info) ==
    CHOOSE h \in 1..Len(headers) :
        headers[h].number = FromLittleEndian4(ChainData(info))
InputType(tx, i) == WitnessArgs_from_slice(tx.witnesses[i]).value.input_type

\* C12: in a withdraw transaction the witness of every input i is a
\* WitnessArgs whose input_type is the 8-byte little-endian index k, a valid
\* position of header_deps, with header_deps[k] the hash of the block that
\* committed input i's original deposit.
C12_WitnessIndexesDeposit ==
    (ReturnedOk("withdraw") /\ AllPrepared(Unwrap(result))) =>
        LET r == Unwrap(result)
            tx == ResultTx
        IN /\ Len(tx.witnesses) = Len(tx.inputs)
           /\ \A i \in 1..Len(r.live_cells) :
                 /\ WitnessArgs_from_slice(tx.witnesses[i]).ok
                 /\ IsSome(InputType(tx, i))
                 /\ Len(Unwrap(InputType(tx, i))) = 8
                 /\ \E k \in 0..(Len(tx.header_deps) - 1) :
                       /\ Unwrap(InputType(tx, i)) = LittleEndian8(k)
                       /\ tx.header_deps[k + 1] = OwnDepositHash(r.live_cells[i])

\* a withdraw of two Prepared cells deposited in different blocks, with the
\* header dependencies in an order that puts neither deposit header first
C12_Witness ==
    /\ ReturnedOk("withdraw")
    /\ AllPrepared(Unwrap(result))
    /\ Len(ResultTx.inputs) = 2
    /\ Unwrap(InputType(ResultTx, 1)) # Unwrap(InputType(ResultTx, 2))
    /\ Unwrap(InputType(ResultTx, 1)) # LittleEndian8(0)
    /\ Unwrap(InputType(ResultTx, 2)) # LittleEndian8(0)


\* the deposit out-point a Prepared cell was made from: the input of its
\* prepare transaction at the cell's own index
OwnDepositOutPoint(info) ==
    txs[info.tx_hash].inputs[info.output_index + 1].previous_output
MaximumWithdraw(info) ==
    rpc_calculate_dao_maximum_withdraw(OwnDepositOutPoint(info), CommittingHash(info)).value
MaximumWithdrawTotal(r) ==
    SumSeq([i \in 1..Len(r.live_cells) |-> MaximumWithdraw(r.live_cells[i])])

\* C13: a withdraw transaction has a single output, without type script
\* and with empty data, whose capacity is the sum over the selected Prepared
\* inputs of the chain's maximum-withdraw value for (deposit out-point,
\* prepare block hash), minus the fee.
C13_WithdrawOutput ==
    (ReturnedOk("withdraw") /\ AllPrepared(Unwrap(result))) =>
        LET r == Unwrap(result)
            tx == ResultTx
        IN /\ Len(tx.outputs) = 1
           /\ tx.outputs_data = << << >> >>
           /\ tx.outputs[1].type_ = None
           /\ tx.outputs[1].capacity = MaximumWithdrawTotal(r) - r.tx_fee

\* what a builder operation has to spend, and what it has to pay from it
Available(r) ==
    IF r.op = "deposit" THEN InputTotal
    ELSE IF r.op = "prepare" THEN FeeCoveringTotal(r)
    ELSE MaximumWithdrawTotal(r)
Required(r) == IF r.op = "deposit" THEN r.capacity + r.tx_fee ELSE r.tx_fee
BuilderOps == {"deposit", "prepare", "withdraw"}
Insufficient(r) ==
    /\ r.op \in BuilderOps
    /\ r.op = "withdraw" => AllPrepared(r)
    /\ Available(r) < Required(r)

\* C15: a builder operation whose inputs do not cover what it has to pay
\* (deposit: inputs < capacity + fee; prepare: fee-covering inputs < fee;
\* withdraw: total maximum-withdraw < fee) returns an error and no
\* transaction.
C15_InsufficientFails ==
    (IsSome(result) /\ Insufficient(Unwrap(result))) =>
        /\ Unwrap(result).outcome = "err"
        /\ Unwrap(result).tx = None


\* a selected cell whose transaction no block has committed, or whose index
\* is not below the number of outputs of its committed transaction
NotOnChain(info) ==
    info.tx_hash \in 1..Len(txs) /\ IsNone(txs[info.tx_hash].block_hash)
OutOfIndex(info) ==
    /\ info.tx_hash \in 1..Len(txs)
    /\ IsSome(txs[info.tx_hash].block_hash)
    /\ info.output_index >= Len(txs[info.tx_hash].outputs)
Unresolvable(r) ==
    { i \in 1..Len(r.live_cells) :
        NotOnChain(r.live_cells[i]) \/ OutOfIndex(r.live_cells[i]) }
FirstUnresolvable(r) ==
    r.live_cells[CHOOSE i \in Unresolvable(r) : \A j \in Unresolvable(r) : i <= j]
FailsUnresolvable(r) ==
    /\ r.outcome = "err"
    /\ r.tx = None
    /\ r.error = IF NotOnChain(FirstUnresolvable(r))
                 THEN "Tx is not on-chain" ELSE "OutPoint is out of index"

\* C14: prepare and withdraw return an error value and no transaction when
\* a selected cell's transaction is not confirmed on-chain ("Tx is not
\* on-chain") or its index is not smaller than the number of outputs of its
\* transaction ("OutPoint is out of index").
C14_UnresolvableFails ==
    (IsSome(result) /\ Unwrap(result).op \in {"prepare", "withdraw"}
        /\ Unresolvable(Unwrap(result)) # {}) =>
        FailsUnresolvable(Unwrap(result))


----------------------------------------------------------------------------
(* Cell selection of `forty issue`: collect_sighash_cells                  *)

\* candidate cells the index holds under the sender's lock
MaxCandidates == 3

\* capacities are counted in CKB here (the code counts shannons)
MIN_SECP_CELL_CAPACITY == 61
TX_FEE == 1

\* FortySubCommand::issue: what collect_sighash_cells is asked for
target_ckb_capacity == MIN_SECP_CELL_CAPACITY + TX_FEE

\* stop as soon as the target is reached
sighash_enough_at_least(take_capacity, target_capacity) ==
    take_capacity >= target_capacity

\* the stop condition of the terminator
sighash_enough(take_capacity, target_capacity) ==
    \/ take_capacity = target_capacity
    \/ take_capacity >= target_capacity + MIN_SECP_CELL_CAPACITY

\* the cells the terminator passes over
sighash_skip(c) == ~c.plain /\ c.mature

\* get_live_cells_by_lock under the terminator of collect_sighash_cells:
\* the cells in index order, each skipped or taken, until the terminator
\* says stop
RECURSIVE sighash_scan(_, _, _, _)
sighash_scan(candidates, take_capacity, cells, target_capacity) ==
    IF candidates = << >>
    THEN [enough |-> FALSE, take_capacity |-> take_capacity, cells |-> cells]
    ELSE LET c == Head(candidates) IN
         IF sighash_skip(c)
         THEN sighash_scan(Tail(candidates), take_capacity, cells, target_capacity)
         ELSE LET taken == take_capacity + c.capacity IN
              IF sighash_enough(taken, target_capacity)
              THEN [enough |-> TRUE, take_capacity |-> taken, cells |-> Append(cells, c)]
              ELSE sighash_scan(Tail(candidates), taken, Append(cells, c),
                                target_capacity)

\* FortySubCommand::collect_sighash_cells
collect_sighash_cells(candidates, target_capacity) ==
    LET scan == sighash_scan(candidates, 0, << >>, target_capacity) IN
    IF ~scan.enough
    THEN [outcome |-> "err", error |-> "Capacity not enough", cells |-> None]
    ELSE [outcome |-> "ok", error |-> "", cells |-> Some(scan.cells)]

CandidateCapacities == {1, 31, 62, 100}

\* plain: no type script and no data
CandidateCells ==
    [capacity : CandidateCapacities, plain : BOOLEAN, mature : BOOLEAN]

CandidateLists == UNION { [1..n -> CandidateCells] : n \in 0..MaxCandidates }

InitSelector ==
    /\ EpochIdle
    /\ ClassifierIdle
    /\ headers = <<GenesisHeader>>
    /\ txs = <<GenesisTx>>
    /\ spent = {}
    /\ result \in { Some([op |-> "collect request", candidates |-> q,
                          target_capacity |-> target_ckb_capacity]) :
                      q \in CandidateLists }

\* the request is answered by collect_sighash_cells
Collect ==
    /\ IsSome(result)
    /\ Unwrap(result).op = "collect request"
    /\ LET q == Unwrap(result)
           ret == collect_sighash_cells(q.candidates, q.target_capacity)
       IN result' = Some([op |-> "collect_sighash_cells", request |-> q,
                          outcome |-> ret.outcome, error |-> ret.error,
                          cells |-> ret.cells])
    /\ UNCHANGED <<deposit_header, prepare_header, unlock_point, cell, verdict,
                   headers, txs, spent>>

NextSelector == Collect

SpecSelector == InitSelector /\ [][NextSelector]_vars

----------------------------------------------------------------------------
(* Claims about the witness signer (checked under SpecSigner)              *)

SignAnswered == IsSome(result) /\ Unwrap(result).op = "build_secp_witnesses"
\* witness 0 of a request as a WitnessArgs (no bytes: all fields absent)
RequestWitness0(w) ==
    IF w[1] = << >> THEN [lock |-> None, input_type |-> None, output_type |-> None]
    ELSE WitnessArgs_from_slice(w[1]).value
\* the requests that reach the signing callback
Signable(w) ==
    /\ w[1] = << >> \/ WitnessArgs_from_slice(w[1]).ok
    /\ RequestWitness0(w).lock = None
CallbackAnswer(r) == signer_call(r.request.signer, r.calls[1])

\* C16: build_secp_witnesses returns a list of the same length in which
\* every witness from position 1 on is unchanged and witness 0 keeps its
\* input_type and output_type and has as lock exactly the signature the
\* callback returned; when the callback fails, its error is returned and no
\* witness list.
C16_OnlyLockOfWitness0 ==
    SignAnswered =>
        LET r == Unwrap(result)
            q == r.request
        IN /\ r.outcome = "ok" =>
                 LET out == Unwrap(r.witnesses)
                     out0 == WitnessArgs_from_slice(out[1])
                 IN /\ Len(out) = Len(q.witnesses)
                    /\ \A i \in 2..Len(out) : out[i] = q.witnesses[i]
                    /\ out0.ok
                    /\ out0.value.input_type = RequestWitness0(q.witnesses).input_type
                    /\ out0.value.output_type = RequestWitness0(q.witnesses).output_type
                    /\ Len(r.calls) = 1
                    /\ CallbackAnswer(r).ok
                    /\ out0.value.lock = Some(CallbackAnswer(r).value)
           /\ (Len(r.calls) = 1 /\ ~CallbackAnswer(r).ok) =>
                 /\ r.outcome = "err"
                 /\ r.error = CallbackAnswer(r).error
                 /\ r.witnesses = None

\* two witnesses signed, witness 0 carrying an input_type and an
\* output_type, witness 1 not empty
C16_Witness ==
    /\ SignAnswered
    /\ Unwrap(result).outcome = "ok"
    /\ Len(Unwrap(result).request.witnesses) = 2
    /\ Unwrap(result).request.witnesses[2] # << >>
    /\ IsSome(RequestWitness0(Unwrap(result).request.witnesses).input_type)
    /\ IsSome(RequestWitness0(Unwrap(result).request.witnesses).output_type)

\* the preimage the claim describes: tx_hash, then length and bytes of
\* witness 0 with 65 zero bytes as lock, then length and bytes of every
\* other witness in order
Placeholder0(w) ==
    WitnessArgs_as_bytes([lock |-> Some([i \in 1..65 |-> 0]),
                          input_type |-> RequestWitness0(w).input_type,
                          output_type |-> RequestWitness0(w).output_type])
RECURSIVE LengthPrefixed(_, _)
LengthPrefixed(w, i) ==
    IF i > Len(w) THEN << >>
    ELSE LittleEndian8(Len(w[i])) \o w[i] \o LengthPrefixed(w, i + 1)
Preimage(tx_hash, w) ==
    tx_hash \o LittleEndian8(Len(Placeholder0(w))) \o Placeholder0(w)
    \o LengthPrefixed(w, 2)
\* the bytes build_secp_witnesses hashes for a signable witness list
HashedBytes(tx_hash, w) ==
    Concat(sign_args_of(tx_hash,
                        with_lock(init_witness_of(w).value, placeholder_lock), w))
DigestAndCalls(r) ==
    /\ Len(r.calls) <= 1
    /\ Signable(r.request.witnesses) <=> Len(r.calls) = 1
    /\ Len(r.calls) = 1 =>
          /\ HashedBytes(r.request.tx_hash, r.request.witnesses) =
                Preimage(r.request.tx_hash, r.request.witnesses)
          /\ r.calls[1] = blake2b_256(Preimage(r.request.tx_hash, r.request.witnesses))

\* C17 as stated: the digest handed to the callback is the hash of that
\* preimage, the callback is invoked exactly once, and any two witness
\* lists that differ in a witness or in the order give different preimages.
C17_PreimageDistinguishesAll ==
    (SignAnswered /\ Signable(Unwrap(result).request.witnesses)) =>
        LET r == Unwrap(result)
            q == r.request
        IN /\ DigestAndCalls(r)
           /\ \A w \in WitnessLists :
                 (Signable(w) /\ w # q.witnesses) =>
                     HashedBytes(q.tx_hash, w) # HashedBytes(q.tx_hash, q.witnesses)

\* a witness list with an empty witness 0 read as the default WitnessArgs
Canonical(w) ==
    [w EXCEPT ![1] = IF w[1] = << >>
                     THEN <<16, 0, 0, 0, 16, 0, 0, 0, 16, 0, 0, 0, 16, 0, 0, 0>>
                     ELSE w[1]]

\* C17: the digest handed to the callback is the hash of that preimage,
\* the callback is invoked exactly once, and two witness lists give
\* different preimages unless they differ only in witness 0 being empty
\* in one and the serialised default WitnessArgs in the other.
C17_PreimageDistinguishesCanonical ==
    (SignAnswered /\ Signable(Unwrap(result).request.witnesses)) =>
        LET r == Unwrap(result)
            q == r.request
        IN /\ DigestAndCalls(r)
           /\ \A w \in WitnessLists :
                 Signable(w) =>
                     (Canonical(w) # Canonical(q.witnesses)
                        <=> HashedBytes(q.tx_hash, w) #
                                HashedBytes(q.tx_hash, q.witnesses))

\* an empty witness 0 followed by a second witness was signed
C17_Witness ==
    /\ SignAnswered
    /\ Unwrap(result).outcome = "ok"
    /\ Len(Unwrap(result).calls) = 1
    /\ Len(Unwrap(result).request.witnesses) = 2
    /\ Unwrap(result).request.witnesses[1] = << >>
    /\ Unwrap(result).request.witnesses[2] # << >>


----------------------------------------------------------------------------
(* Claims about collect_sighash_cells (checked under SpecSelector)         *)

Collected == IsSome(result) /\ Unwrap(result).op = "collect_sighash_cells"
CollectedTotal == SumSeq(Capacities(Unwrap(Unwrap(result).cells)))
\* the totals of the proper prefixes of the returned cells
PrefixTotals ==
    LET cells == Unwrap(Unwrap(result).cells) IN
    { SumSeq(Capacities(SubSeq(cells, 1, n))) : n \in 0..(Len(cells) - 1) }

\* C18: when collect_sighash_cells succeeds, the total capacity of the
\* returned cells is exactly the target or at least the target plus the
\* minimum cell capacity, never strictly between the two.
C18_ExactOrOvershootByMinimum ==
    (Collected /\ Unwrap(result).outcome = "ok") =>
        LET target == Unwrap(result).request.target_capacity IN
        /\ \/ CollectedTotal = target
           \/ CollectedTotal >= target + 61
        /\ ~(target < CollectedTotal /\ CollectedTotal < target + 61)

\* a success that passed through a total strictly between the target and
\* the target plus the minimum before it stopped
C18_Witness ==
    /\ Collected
    /\ Unwrap(result).outcome = "ok"
    /\ CollectedTotal >= Unwrap(result).request.target_capacity + 61
    /\ \E t \in PrefixTotals :
          /\ t > Unwrap(result).request.target_capacity
          /\ t < Unwrap(result).request.target_capacity + 61

----------------------------------------------------------------------------
(* The builders and the commands on an account of MaxCells cells, several  *)
(* of which may have the same value and the same block: a chain of a genesis block, a block that deposits some  *)
(* of the cells and a block that prepares some of the deposits             *)

AccountCapacities == {100, 104}
Stages == {"free", "deposited", "prepared"}

\* the epoch point of the block of a number, in epochs of ChainEpochLength
PointOfNumber(n) ==
    EpochNumberWithFraction(n \div ChainEpochLength, n % ChainEpochLength,
                            ChainEpochLength)

AccountGenesisTx(capacities) ==
    [GenesisTx EXCEPT
        !.outputs = [i \in 1..Len(capacities) |->
                        CellOutput(capacities[i], lock_script, None)],
        !.outputs_data = [i \in 1..Len(capacities) |-> << >>]]

\* the positions of q whose entry is in S, in order
PositionsIn(q, S) == SelectIdx([i \in 1..Len(q) |-> i], [i \in 1..Len(q) |-> q[i] \in S], 1)

\* the transaction that deposits the genesis cells at the positions
AccountDepositTx(capacities, positions) ==
    [inputs |-> [j \in 1..Len(positions) |->
                    CellInput(OutPoint(1, positions[j] - 1), U64Zero)],
     outputs |-> [j \in 1..Len(positions) |->
                     CellOutput(capacities[positions[j]], lock_script,
                                Some(dao_type_script))],
     outputs_data |-> [j \in 1..Len(positions) |-> Zeros(8)],
     block_hash |-> Some(2)]

\* the transaction that prepares the outputs of the deposit at the positions
AccountPrepareTx(deposit_tx, positions) ==
    [inputs |-> [j \in 1..Len(positions) |->
                    CellInput(OutPoint(2, positions[j] - 1), U64Zero)],
     outputs |-> [j \in 1..Len(positions) |-> deposit_tx.outputs[positions[j]]],
     outputs_data |-> [j \in 1..Len(positions) |->
                          to_le_bytes(U64FromNat(HeaderAt(PointOfNumber(1)).number))],
     block_hash |-> Some(3)]

\* the transactions of the chain of an account
AccountTxs(capacities, stages) ==
    LET deposited == PositionsIn(stages, {"deposited", "prepared"})
        deposit_tx == AccountDepositTx(capacities, deposited)
        prepared == PositionsIn([j \in 1..Len(deposited) |-> stages[deposited[j]]],
                                {"prepared"})
    IN <<AccountGenesisTx(capacities)>>
       \o (IF Len(deposited) = 0 THEN << >> ELSE <<deposit_tx>>)
       \o (IF Len(prepared) = 0 THEN << >>
           ELSE <<AccountPrepareTx(deposit_tx, prepared)>>)

InitAccount ==
    /\ \E capacities \in [1..MaxCells -> AccountCapacities],
          stages \in [1..MaxCells -> Stages] :
          /\ txs = AccountTxs(capacities, stages)
          /\ headers = [h \in 1..Len(txs) |-> HeaderAt(PointOfNumber(h - 1))]
          /\ spent = UNION { { txs[t].inputs[i].previous_output :
                                 i \in 1..Len(txs[t].inputs) } : t \in 2..Len(txs) }
    /\ EpochIdle
    /\ ClassifierIdle
    /\ result = None

NextAccount ==
    \/ BuildDeposit
    \/ BuildPrepare
    \/ BuildWithdraw
    \/ CommandDeposit
    \/ CommandPrepare
    \/ CommandWithdraw

SpecAccount == InitAccount /\ [][NextAccount]_vars

----------------------------------------------------------------------------
(* The since of a withdraw input against the tip of the chain: pick the    *)
(* deposit and prepare headers of a cell and a tip, submit                 *)

\* epochs gone by between the deposit and the prepare, and between the
\* prepare and the tip
PrepareSpans == {0, 1, 179, 180, 181, 359, 360}
TipSpans == {0, 1, 178, 179, 180, 181}

\* index and length of the points: index < length
Fractions == { il \in (0..(MaxEpochLength - 1)) \X (1..MaxEpochLength) : il[1] < il[2] }

\* the choices of a deposit point, a prepare point and a tip: the prepare
\* block is not before the deposit block, the tip not before the prepare
\* block
MaturityChoices ==
    { c \in [deposit_number : {0, 5}, prepare_span : PrepareSpans, tip_span : TipSpans,
             deposit : Fractions, prepare : Fractions, tip : Fractions] :
          /\ (c.prepare_span = 0 =>
                  c.prepare[1] * c.deposit[2] >= c.deposit[1] * c.prepare[2])
          /\ (c.tip_span = 0 => c.tip[1] * c.prepare[2] >= c.prepare[1] * c.tip[2]) }

\* <<deposit point, prepare point, tip point>>
MaturityInputs ==
    { << EpochNumberWithFraction(c.deposit_number, c.deposit[1], c.deposit[2]),
         EpochNumberWithFraction(c.deposit_number + c.prepare_span,
                                 c.prepare[1], c.prepare[2]),
         EpochNumberWithFraction(c.deposit_number + c.prepare_span + c.tip_span,
                                 c.tip[1], c.tip[2]) >> : c \in MaturityChoices }

InitMaturity ==
    /\ \E dpt \in MaturityInputs :
          /\ deposit_header = [number |-> 0, epoch |-> dpt[1]]
          /\ prepare_header = [number |-> 0, epoch |-> dpt[2]]
          /\ headers = <<[number |-> 0, epoch |-> dpt[3]]>>
    /\ unlock_point = None
    /\ ClassifierIdle
    /\ txs = <<GenesisTx>>
    /\ spent = {}
    /\ result = None

\* the epoch an absolute-epoch since names
since_epoch(since) ==
    EpochNumberWithFraction(since[1] + 65536 * (since[2] % 256),
                            since[2] \div 256 + 256 * (since[3] % 256),
                            since[3] \div 256 + 256 * (since[4] % 256))

\* the rule of the chain: an input is mature when the epoch of the tip has
\* reached the epoch of its since
since_mature(since, tip) ==
    \/ tip.number > since_epoch(since).number
    \/ /\ tip.number = since_epoch(since).number
       /\ tip.index * since_epoch(since).length >= since_epoch(since).index * tip.length

\* the node's answer to a withdraw input with the since the builder gives it
SubmitWithdraw ==
    /\ result = None
    /\ result' = Some([op |-> "submit withdraw",
                       since |-> withdraw_since(deposit_header, prepare_header),
                       accepted |-> since_mature(withdraw_since(deposit_header,
                                                                prepare_header),
                                                 Tip.epoch)])
    /\ UNCHANGED <<deposit_header, prepare_header, unlock_point, cell, verdict,
                   headers, txs, spent>>

NextMaturity == SubmitWithdraw

SpecMaturity == InitMaturity /\ [][NextMaturity]_vars

----------------------------------------------------------------------------
(* Claims on the selection of the commands (checked under Spec)            *)

IsCommand(r) == r.op \in {"dao deposit", "dao prepare", "dao withdraw"}

\* the command reaches its scan, and the index and the node's RPC work
Selecting(r) ==
    /\ IsCommand(r)
    /\ r.index_ready
    /\ r.fault = NoFault
    /\ (r.op = "dao prepare" => r.tx_fee = 0)

\* the live cells that meet the stop condition of the command
Matching(r) ==
    IF r.op = "dao deposit"
    THEN { op \in FreeOutPoints : LiveCellInfo(op).capacity = r.capacity + r.tx_fee }
    ELSE IF r.op = "dao prepare"
    THEN { op \in LiveOutPoints :
             /\ IsDepositedInfo(LiveCellInfo(op))
             /\ LiveCellInfo(op).capacity = r.capacity }
    ELSE { op \in LiveOutPoints :
             /\ IsPreparedInfo(LiveCellInfo(op))
             /\ MaximumWithdraw(LiveCellInfo(op)) = r.capacity + r.tx_fee }

NothingDone(r) == r.tx = None /\ r.sent = << >> /\ r.live_cells = << >>

\* C19: a command whose scan ends before the stop condition is met (no
\* live cell of the class of the command has the requested value; for
\* withdraw, no live Prepared cell has a maximum-withdraw value equal to
\* capacity + fee) returns the error "Capacity not enough" and builds,
\* signs and sends nothing.
C19_ExhaustedScanFails ==
    IsSome(result) =>
        LET r == Unwrap(result) IN
        (Selecting(r) /\ Matching(r) = {}) =>
            /\ r.outcome = "err"
            /\ r.error = "Capacity not enough"
            /\ NothingDone(r)

\* a withdraw for a value that the only live Prepared cell does not have
C19_Witness ==
    /\ Returned("dao withdraw")
    /\ Selecting(Unwrap(result))
    /\ Cardinality(PreparedOutPoints) = 1
    /\ Matching(Unwrap(result)) = {}
    /\ Unwrap(result).error = "Capacity not enough"
    /\ NothingDone(Unwrap(result))

\* the lookup of the live cell fails for a cell that the scan of the
\* command comes to: the cell is not behind one that meets the stop condition
IndexPosition(op) == Position(SortedOutPoints(LiveOutPoints), op)
FaultScanned(r) ==
    /\ IsCommand(r)
    /\ r.index_ready
    /\ (r.op = "dao prepare" => r.tx_fee = 0)
    /\ r.fault.rpc = "get_live_cell"
    /\ \A op \in Matching(r) : IndexPosition(r.fault.at) <= IndexPosition(op)

\* C20: when the lookup of the live cell fails for a cell that deposit,
\* prepare or withdraw comes to in its scan, the command returns that
\* failure as an error and sends nothing; it does not skip the cell and
\* report "Capacity not enough" or succeed with another cell.
C20_LookupFailureReturned ==
    IsSome(result) =>
        LET r == Unwrap(result) IN
        FaultScanned(r) =>
            /\ r.outcome = "err"
            /\ r.error = "RPC get_live_cell error"
            /\ r.sent = << >>

\* the failure hidden behind "Capacity not enough": the only cell with the
\* requested value is the one whose lookup failed
C20_SkippedThenNotEnough ==
    /\ IsSome(result)
    /\ FaultScanned(Unwrap(result))
    /\ Matching(Unwrap(result)) = {Unwrap(result).fault.at}
    /\ Unwrap(result).error = "Capacity not enough"

\* the failure hidden behind a success with another cell
C20_SkippedThenSent ==
    /\ IsSome(result)
    /\ FaultScanned(Unwrap(result))
    /\ Unwrap(result).outcome = "ok"
    /\ Len(Unwrap(result).sent) = 1
    /\ Unwrap(result).fault.at \notin
           { out_point(Unwrap(result).live_cells[i]) :
               i \in 1..Len(Unwrap(result).live_cells) }

----------------------------------------------------------------------------
(* Claims on the steps of the commands (checked under Spec)                *)

Serviceable(r) ==
    /\ IsCommand(r)
    /\ r.index_ready
    /\ r.fault = NoFault
    /\ r.signer = "privkey"
    /\ Matching(r) # {}

\* the command sent one transaction, which spends one cell that has the
\* requested value
SentForMatching(r) ==
    /\ r.outcome = "ok"
    /\ Len(r.sent) = 1
    /\ Len(r.live_cells) = 1
    /\ out_point(r.live_cells[1]) \in Matching(r)
    /\ r.sent[1].inputs[1].previous_output = out_point(r.live_cells[1])

\* C22: with a committed deposit of capacity C, `dao prepare --capacity C`
\* with a positive fee selects that Deposited cell and sends a prepare
\* transaction; with a committed prepare, `dao withdraw` with capacity + fee
\* equal to the cell's maximum-withdraw value sends a withdraw transaction.
C22_LifecycleSucceeds ==
    IsSome(result) =>
        LET r == Unwrap(result) IN
        Serviceable(r) =>
            /\ (r.op = "dao prepare" /\ r.tx_fee > 0) => SentForMatching(r)
            /\ r.op = "dao withdraw" => SentForMatching(r)

\* what `dao prepare` does with a positive fee
C22_PrepareWithFeePanics ==
    /\ Returned("dao prepare")
    /\ Serviceable(Unwrap(result))
    /\ Unwrap(result).tx_fee > 0
    /\ Unwrap(result).outcome = "panic"
    /\ Unwrap(result).sent = << >>

----------------------------------------------------------------------------
(* Claims on the maturity of a withdraw (checked under SpecMaturity)       *)

\* epoch points as rationals number + index / length
PointGE(a, b) ==
    \/ a.number > b.number
    \/ (a.number = b.number /\ a.index * b.length >= b.index * a.length)
PointLater(d, epochs) == EpochNumberWithFraction(d.number + epochs, d.index, d.length)

Submitted == IsSome(result) /\ Unwrap(result).op = "submit withdraw"

\* the prepare block lies in the second lock period of the deposit: later
\* than deposit + 180 epochs, not later than deposit + 360
PreparedInSecondPeriod ==
    /\ ~PointGE(PointLater(deposit_header.epoch, 180), prepare_header.epoch)
    /\ PointGE(PointLater(deposit_header.epoch, 360), prepare_header.epoch)

\* the prepare block lies exactly 180 epochs after the deposit block
PreparedAtEndOfFirstPeriod ==
    /\ PointGE(PointLater(deposit_header.epoch, 180), prepare_header.epoch)
    /\ PointGE(prepare_header.epoch, PointLater(deposit_header.epoch, 180))

\* C23: a withdraw of a cell prepared in its second lock period is accepted
\* exactly at the tips that have reached deposit epoch + 360 and rejected as
\* immature at every earlier tip; a withdraw of a cell prepared exactly 180
\* epochs after its deposit is accepted at every tip from the prepare block
\* on.
C23_SinceGatesAtUnlockPoint ==
    Submitted =>
        /\ PreparedInSecondPeriod =>
              (Unwrap(result).accepted
                   = PointGE(Tip.epoch, PointLater(deposit_header.epoch, 360)))
        /\ PreparedAtEndOfFirstPeriod => Unwrap(result).accepted

\* a cell prepared in its second period, still immature at a tip in the
\* epoch deposit + 360 whose fraction is short of the deposit's
C23_Witness ==
    /\ Submitted
    /\ PreparedInSecondPeriod
    /\ Tip.epoch.number = deposit_header.epoch.number + 360
    /\ ~Unwrap(result).accepted

----------------------------------------------------------------------------
(* Claims on the cell a command picks (checked under SpecAccount)          *)

\* the live cells that pass the classifier of the command, with the
\* requested value: those of Matching whose lookup does not fail
Passing(r) ==
    IF r.fault.rpc = "get_live_cell" THEN Matching(r) \ {r.fault.at} ELSE Matching(r)

\* C24: a command whose selection succeeds has selected exactly one cell:
\* the first cell in the order of the index that passes the classifier of
\* the command and whose value equals the target; nothing before it is
\* taken.
C24_FirstExactMatch ==
    IsSome(result) =>
        LET r == Unwrap(result) IN
        (IsCommand(r) /\ r.live_cells # << >>) =>
            /\ Len(r.live_cells) = 1
            /\ r.live_cells[1] = LiveCellInfo(out_point(r.live_cells[1]))
            /\ out_point(r.live_cells[1]) \in Passing(r)
            /\ \A op \in Passing(r) :
                  IndexPosition(out_point(r.live_cells[1])) <= IndexPosition(op)

\* a withdraw on an account with two Prepared cells of the requested
\* maximum-withdraw value
C24_Witness ==
    /\ ReturnedOk("dao withdraw")
    /\ Cardinality(Matching(Unwrap(result))) >= 2
    /\ Unwrap(result).fault = NoFault
    /\ Len(Unwrap(result).live_cells) = 1

----------------------------------------------------------------------------
(* Claims on the shape of every transaction (checked under Spec)           *)

IsBuild(r) == r.op \in {"deposit", "prepare", "withdraw"}

\* C25: a transaction returned by a builder or sent by a command has one
\* witness per input and one output-data entry per output, and its inputs
\* are the selected cells; the transaction of a command, which is signed,
\* has a 65-byte lock in witness 0.
C25_CountsAlign ==
    IsSome(result) =>
        LET r == Unwrap(result) IN
        ((IsBuild(r) \/ IsCommand(r)) /\ r.outcome = "ok") =>
            /\ Len(ResultTx.inputs) = Len(r.live_cells)
            /\ Len(ResultTx.witnesses) = Len(ResultTx.inputs)
            /\ Len(ResultTx.outputs_data) = Len(ResultTx.outputs)
            /\ IsCommand(r) => LockFieldLen(ResultTx.witnesses[1], 65)

\* a deposit built from two cells, with a change output
C25_Witness ==
    /\ ReturnedOk("deposit")
    /\ Len(ResultTx.inputs) = 2
    /\ Len(ResultTx.witnesses) = 2
    /\ Len(ResultTx.outputs) = 2
    /\ Len(ResultTx.outputs_data) = 2

----------------------------------------------------------------------------
(* Claims on the header dependencies (checked under SpecAccount)           *)

NoDuplicates(q) == \A i, j \in 1..Len(q) : i # j => q[i] # q[j]

\* the hashes of the blocks that committed the deposits of the Deposited
\* cells among the selected ones
DepositBlocksOfDeposited(r) ==
    { CommittingHash(r.live_cells[i]) :
        i \in { k \in 1..Len(r.live_cells) : IsDepositedInfo(r.live_cells[k]) } }

\* the hashes of the blocks that committed the prepare and the deposit of
\* each selected Prepared cell
BlocksOfPrepared(r) ==
    UNION { {CommittingHash(r.live_cells[i]), OwnDepositHash(r.live_cells[i])} :
              i \in 1..Len(r.live_cells) }

\* C26: the header dependencies of a prepare transaction are, without
\* repeats, the hashes of the blocks that committed the deposits of its
\* Deposited inputs; those of a withdraw transaction are, without repeats,
\* the hashes of the blocks that committed the deposits and the prepares of
\* its inputs.
C26_HeaderDepsAreTheSet ==
    IsSome(result) =>
        LET r == Unwrap(result) IN
        /\ (r.op \in {"prepare", "dao prepare"} /\ r.outcome = "ok") =>
              /\ NoDuplicates(ResultTx.header_deps)
              /\ Range(ResultTx.header_deps) = DepositBlocksOfDeposited(r)
        /\ (r.op \in {"withdraw", "dao withdraw"} /\ r.outcome = "ok" /\ AllPrepared(r)) =>
              /\ NoDuplicates(ResultTx.header_deps)
              /\ Range(ResultTx.header_deps) = BlocksOfPrepared(r)

\* a withdraw of two Prepared cells of the same deposit block and the same
\* prepare block: two header dependencies for four headers
C26_Witness ==
    /\ ReturnedOk("withdraw")
    /\ AllPrepared(Unwrap(result))
    /\ Len(ResultTx.inputs) = 2
    /\ Len(ResultTx.header_deps) = 2
    /\ OwnDepositHash(Unwrap(result).live_cells[1])
           = OwnDepositHash(Unwrap(result).live_cells[2])

----------------------------------------------------------------------------
(* Claims on the state of the outputs (checked under Spec)                 *)

\* output i of a transaction as a live cell of the owner
OwnedLiveOutput(tx, i) ==
    [status |-> "live",
     cell |-> Some([output |-> [tx.outputs[i] EXCEPT !.lock = lock_script],
                    data |-> tx.outputs_data[i]])]

\* the classes the classifiers put a cell in
ClassesOf(c) ==
    (IF can_spend_cell(c) THEN {"Free"} ELSE {})
    \cup (IF can_prepare_cell(c) THEN {"Deposited"} ELSE {})
    \cup (IF can_withdraw_cell(c) THEN {"Prepared"} ELSE {})

\* the command installed the owner's lock in every output
OwnerLockInstalled(tx) == \A i \in 1..Len(tx.outputs) : tx.outputs[i].lock = lock_script

\* C27: with the owner's lock, output 0 of a deposit transaction is a
\* Deposited cell and of no other class, each output of a prepare
\* transaction that stands for a Deposited input is a Prepared cell and of
\* no other class, and the output of a withdraw transaction is a Free cell
\* and of no other class; the commands install the owner's lock.
C27_OutputsLandInState ==
    IsSome(result) =>
        LET r == Unwrap(result) IN
        ((IsBuild(r) \/ IsCommand(r)) /\ r.outcome = "ok") =>
            /\ IsCommand(r) => OwnerLockInstalled(ResultTx)
            /\ r.op \in {"deposit", "dao deposit"} =>
                  ClassesOf(OwnedLiveOutput(ResultTx, 1)) = {"Deposited"}
            /\ r.op \in {"prepare", "dao prepare"} =>
                  \A i \in 1..Len(DepositedOf(r)) :
                      ClassesOf(OwnedLiveOutput(ResultTx, i)) = {"Prepared"}
            /\ r.op \in {"withdraw", "dao withdraw"} =>
                  ClassesOf(OwnedLiveOutput(ResultTx, 1)) = {"Free"}

\* a prepare of two Deposited cells
C27_Witness ==
    /\ ReturnedOk("prepare")
    /\ Len(DepositedOf(Unwrap(result))) = 2
    /\ ClassesOf(OwnedLiveOutput(ResultTx, 1)) = {"Prepared"}
    /\ ClassesOf(OwnedLiveOutput(ResultTx, 2)) = {"Prepared"}

----------------------------------------------------------------------------
(* Claims on a failing maximum-withdraw RPC (checked under Spec)            *)

\* the withdraw command calls calculate_dao_maximum_withdraw while that RPC
\* of the node fails: the index is ready and a Prepared cell is scanned
MaximumWithdrawFailed(r) ==
    /\ r.op = "dao withdraw"
    /\ r.index_ready
    /\ r.fault = MaximumWithdrawFault
    /\ PreparedOutPoints # {}

\* C28: a transport failure of calculate_dao_maximum_withdraw during a
\* withdraw is returned to the caller as an error value; the process does
\* not abort with a panic.
C28_TransportFailureReturned ==
    IsSome(result) =>
        LET r == Unwrap(result) IN
        MaximumWithdrawFailed(r) =>
            /\ r.outcome = "err"
            /\ r.sent = << >>

\* the withdraw that aborts in the expect of its terminator
C28_Aborted ==
    /\ IsSome(result)
    /\ MaximumWithdrawFailed(Unwrap(result))
    /\ Unwrap(result).outcome = "panic"
    /\ Unwrap(result).error = "RPC calculate_dao_maximum_withdraw for a prepare cell"

----------------------------------------------------------------------------
(* Claims on the alignment of prepare's inputs and outputs (under Spec)     *)

\* output i of tx is the prepared form of the selected cell i
PreparedFormAt(r, tx, i) ==
    /\ i <= Len(tx.outputs)
    /\ tx.inputs[i].previous_output = out_point(r.live_cells[i])
    /\ tx.outputs[i].capacity = r.live_cells[i].capacity
    /\ tx.outputs[i].type_ = ChainOutput(r.live_cells[i]).type_
    /\ tx.outputs_data[i] = LittleEndian8(CommittingHeader(r.live_cells[i]).number)

\* C29: in every prepare transaction built from an ordered list of selected
\* cells, Deposited and fee-covering cells in any interleaving, the output at
\* index i is the prepared form of the input at index i for every Deposited
\* input, so that input[out_point.index] of the prepare transaction is the
\* deposit out-point of the Prepared cell at that out-point.
C29_PrepareIndexAligned ==
    ReturnedOk("prepare") =>
        LET r == Unwrap(result) IN
        \A i \in 1..Len(r.live_cells) :
            IsDepositedInfo(r.live_cells[i]) => PreparedFormAt(r, ResultTx, i)

\* a fee-covering Free cell selected before a Deposited cell: output 0 is the
\* prepared form of input 1, and input 0 is the Free cell
C29_Misaligned ==
    /\ ReturnedOk("prepare")
    /\ Len(Unwrap(result).live_cells) = 2
    /\ ~IsDepositedInfo(Unwrap(result).live_cells[1])
    /\ can_spend(Unwrap(result).live_cells[1])
    /\ IsDepositedInfo(Unwrap(result).live_cells[2])
    /\ ResultTx.outputs[1].type_ = ChainOutput(Unwrap(result).live_cells[2]).type_
    /\ ResultTx.outputs_data[1] =
           LittleEndian8(CommittingHeader(Unwrap(result).live_cells[2]).number)
    /\ ResultTx.inputs[1].previous_output = out_point(Unwrap(result).live_cells[1])
    /\ ResultTx.outputs[2].type_ = None

----------------------------------------------------------------------------
(* Claims on the conservation of capacity (checked under Spec)              *)

OutputTotal(tx) == SumSeq(Capacities(tx.outputs))

\* the Deposited inputs' capacities reappear, in order, in the first outputs
DepositedCarried(r, tx) ==
    /\ Len(tx.outputs) = Len(DepositedOf(r)) + 1
    /\ \A k \in 1..Len(DepositedOf(r)) :
          tx.outputs[k].capacity = DepositedOf(r)[k].capacity

Conserved(r, tx) ==
    /\ OutputTotal(tx) + r.tx_fee = SumSeq(Capacities(r.live_cells))
    /\ (r.op = "prepare" => DepositedCarried(r, tx))

\* C30: whenever deposit or prepare returns a transaction, the sum of its
\* output capacities plus the fee equals the sum of the capacities of its
\* input cells; in a prepare each Deposited input's capacity reappears in
\* its prepared output and the change output carries the rest.
C30_CapacityConserved ==
    (ReturnedOk("deposit") \/ ReturnedOk("prepare")) =>
        Conserved(Unwrap(result), ResultTx)

\* a deposit of 100 with fee 4 from one cell of 100: the transaction pays
\* out more than it takes in
C30_DepositCreatesCapacity ==
    /\ ReturnedOk("deposit")
    /\ Unwrap(result).capacity = 100 /\ Unwrap(result).tx_fee = 4
    /\ SumSeq(Capacities(Unwrap(result).live_cells)) = 100
    /\ OutputTotal(ResultTx) + 4 > 100

\* a prepare with fee 4 and no fee-covering cell
C30_PrepareCreatesCapacity ==
    /\ ReturnedOk("prepare")
    /\ Unwrap(result).tx_fee = 4
    /\ FeeCoveringTotal(Unwrap(result)) = 0
    /\ OutputTotal(ResultTx) + 4 > SumSeq(Capacities(Unwrap(result).live_cells))

\* with inputs that cover what is paid, both operations conserve capacity
C30_ConservedWhenCovered ==
    ((ReturnedOk("deposit") \/ ReturnedOk("prepare"))
        /\ ~Insufficient(Unwrap(result))) =>
        Conserved(Unwrap(result), ResultTx)

====
